---------------------------- MODULE Spec2Model ----------------------------
(***************************************************************************)
(* A model of htcpp: the HTTP/1.1 server session (src/src/server.hpp), the *)
(* client session (src/src/client.hpp) and the wire codec and URL parser   *)
(* (src/src/http.cpp).                                                     *)
(*                                                                         *)
(* Bytes are one-character strings and a byte string is a sequence of      *)
(* them.  Positions are 0-based, as in the C++ source; npos is -1.         *)
(***************************************************************************)
EXTENDS Integers, Sequences, FiniteSets, TLC

VARIABLES server, peer, client, listener, codec

vars == <<server, peer, client, listener, codec>>

-----------------------------------------------------------------------------
(* Bounds of the model *)

\* Config::Server::maxRequestHeaderSize: the length of the header recv.
MaxRequestHeaderSize == 52
\* Config::Server::maxRequestBodySize.
MaxRequestBodySize == 3
\* Config::get().maxUrlLength.
MaxUrlLength == 8
\* How many requests the peer of the server session sends.
MaxRequests == 2
\* The transport moves bytes of a header recv or a send in units of this
\* many bytes (or all that is left).
IoQuantum == 6
\* How many times the application calls ClientSession::request.
MaxClientCalls == 3
\* How many accepts of the listener complete.
MaxAccepts == 4
\* How many times in a row the I/O queue refuses to take an accept.
MaxAcceptRetries == 2
\* The longest of the URL inputs that are enumerated exhaustively.
MaxInputLen == 4
\* The most header lines of a request given to Request::parse.
MaxHeaderLines == 2

-----------------------------------------------------------------------------
(* Byte strings: std::string / std::string_view *)

npos == -1

Min(a, b) == IF a < b THEN a ELSE b

NUL == "NUL"
CR == "\r"
LF == "\n"
SP == " "
HT == "\t"
CRLF == <<CR, LF>>

\* s[i] for a 0-based i
At(s, i) == s[i + 1]

\* std::string_view::find(pat, pos): the first 0-based position >= pos at
\* which pat occurs in s, or npos.
Find(s, pat, pos) ==
    LET hits == {i \in pos..(Len(s) - Len(pat)) :
                    SubSeq(s, i + 1, i + Len(pat)) = pat}
    IN IF hits = {} THEN npos
       ELSE CHOOSE i \in hits : \A j \in hits : i <= j

\* std::string::rfind(ch): the last position of ch in s, or npos.
RFind(s, ch) ==
    LET hits == {i \in 0..(Len(s) - 1) : At(s, i) = ch}
    IN IF hits = {} THEN npos
       ELSE CHOOSE i \in hits : \A j \in hits : j <= i

\* std::string_view::substr(pos, count), count = npos meaning "to the end";
\* callers keep pos <= size.
Substr(s, pos, count) ==
    IF count = npos THEN SubSeq(s, pos + 1, Len(s))
    ELSE SubSeq(s, pos + 1, Min(pos + count, Len(s)))

IsPrefix(p, s) == Len(p) <= Len(s) /\ SubSeq(s, 1, Len(p)) = p

Nuls(n) == [i \in 1..n |-> NUL]

\* The printable ASCII characters from ' ' (32) to '~' (126), in order.
Ascii ==
    <<" ", "!", "DQUOTE", "#", "$", "%", "&", "'", "(", ")", "*", "+", ",", "-",
      ".", "/", "0", "1", "2", "3", "4", "5", "6", "7", "8", "9", ":", ";",
      "<", "=", ">", "?", "@", "A", "B", "C", "D", "E", "F", "G", "H", "I",
      "J", "K", "L", "M", "N", "O", "P", "Q", "R", "S", "T", "U", "V", "W",
      "X", "Y", "Z", "[", "BACKSLASH", "]", "^", "_", "BACKTICK", "a", "b", "c", "d", "e",
      "f", "g", "h", "i", "j", "k", "l", "m", "n", "o", "p", "q", "r", "s",
      "t", "u", "v", "w", "x", "y", "z", "{", "|", "}", "~">>

\* The character code of a byte.
Ord(ch) ==
    CASE ch = NUL -> 0
      [] ch = HT -> 9
      [] ch = LF -> 10
      [] ch = CR -> 13
      [] OTHER -> 31 + (CHOOSE i \in 1..Len(Ascii) : Ascii[i] = ch)

Digits == <<"0", "1", "2", "3", "4", "5", "6", "7", "8", "9">>

IsDigit(ch) == \E i \in 1..10 : Digits[i] = ch

DigitVal(ch) == (CHOOSE i \in 1..10 : Digits[i] = ch) - 1

\* std::to_string of a non-negative integer
RECURSIVE to_string(_)
to_string(n) ==
    IF n < 10 THEN <<Digits[n + 1]>>
    ELSE to_string(n \div 10) \o <<Digits[(n % 10) + 1]>>


-----------------------------------------------------------------------------
(* Helpers of http.hpp and util.hpp, as the specification describes them *)

\* isHttpWhitespace: space or horizontal tab
isHttpWhitespace(ch) == ch = SP \/ ch = HT

UpperCase ==
    <<"A", "B", "C", "D", "E", "F", "G", "H", "I", "J", "K", "L", "M", "N",
      "O", "P", "Q", "R", "S", "T", "U", "V", "W", "X", "Y", "Z">>

LowerCase ==
    <<"a", "b", "c", "d", "e", "f", "g", "h", "i", "j", "k", "l", "m", "n",
      "o", "p", "q", "r", "s", "t", "u", "v", "w", "x", "y", "z">>

ToLower(ch) ==
    IF \E i \in 1..26 : UpperCase[i] = ch
    THEN LowerCase[CHOOSE i \in 1..26 : UpperCase[i] = ch]
    ELSE ch

LowerStr(s) == [i \in 1..Len(s) |-> ToLower(s[i])]

\* std::optional<T>
nullopt == [has |-> FALSE, val |-> <<>>]
Some(v) == [has |-> TRUE, val |-> v]

\* HeaderMap: a sequence of <<name, value>> entries in insertion order.
\* add appends an entry.
HeaderAdd(headers, name, value) == Append(headers, <<name, value>>)

\* contains / get look a name up case-insensitively; get gives the first match.
HeaderContains(headers, name) ==
    \E i \in 1..Len(headers) : LowerStr(headers[i][1]) = LowerStr(name)

HeaderGet(headers, name) ==
    IF HeaderContains(headers, name)
    THEN LET first == CHOOSE i \in 1..Len(headers) :
                         /\ LowerStr(headers[i][1]) = LowerStr(name)
                         /\ \A j \in 1..(i - 1) :
                               LowerStr(headers[j][1]) # LowerStr(name)
         IN Some(headers[first][2])
    ELSE nullopt

\* HeaderMap::serialize: "<name>: <value>\r\n" for each entry
RECURSIVE HeaderSerialize(_)
HeaderSerialize(headers) ==
    IF headers = <<>> THEN <<>>
    ELSE Head(headers)[1] \o <<":", SP>> \o Head(headers)[2] \o CRLF
         \o HeaderSerialize(Tail(headers))

RECURSIVE DecimalValue(_)
DecimalValue(s) ==
    IF s = <<>> THEN 0
    ELSE 10 * DecimalValue(SubSeq(s, 1, Len(s) - 1)) + DigitVal(s[Len(s)])

\* parseInt<uint64_t>: the value of a non-empty string of decimal digits that
\* fits 64 bits, nothing otherwise.
parseInt(s) ==
    IF s # <<>> /\ Len(s) <= 19 /\ \A i \in 1..Len(s) : IsDigit(s[i])
    THEN Some(DecimalValue(s))
    ELSE [has |-> FALSE, val |-> 0]

-----------------------------------------------------------------------------
(* src/src/http.cpp *)

\* enum class Method and the string form of each (lines 10-27)
MethodTable ==
    << <<"Get", <<"G", "E", "T">>>>, <<"Head", <<"H", "E", "A", "D">>>>,
       <<"Post", <<"P", "O", "S", "T">>>>, <<"Put", <<"P", "U", "T">>>>,
       <<"Delete", <<"D", "E", "L", "E", "T", "E">>>>,
       <<"Connect", <<"C", "O", "N", "N", "E", "C", "T">>>>,
       <<"Options", <<"O", "P", "T", "I", "O", "N", "S">>>>,
       <<"Trace", <<"T", "R", "A", "C", "E">>>>,
       <<"Patch", <<"P", "A", "T", "C", "H">>>> >>

MethodNames == {MethodTable[i][2] : i \in DOMAIN MethodTable}

\* parseMethod: the comparison is case-sensitive.
parseMethod(method) ==
    IF method \in MethodNames
    THEN [has |-> TRUE,
          val |-> MethodTable[CHOOSE i \in DOMAIN MethodTable :
                                 MethodTable[i][2] = method][1]]
    ELSE [has |-> FALSE, val |-> "Get"]

\* toString(Method): the uppercase name
toString(method) ==
    MethodTable[CHOOSE i \in DOMAIN MethodTable : MethodTable[i][1] = method][2]

\* appendSegment without the branch that drops "/." (lines 55-56)
appendSegment_KeepsDot(output, segment) ==
    IF segment = <<"/", ".", ".">>
    THEN IF RFind(output, "/") # npos
         THEN SubSeq(output, 1, RFind(output, "/"))
         ELSE output
    ELSE output \o segment

\* appendSegment dropping "/.." without truncating the output (lines 59-61)
appendSegment_NoTruncate(output, segment) ==
    IF segment = <<"/", ".">> THEN output
    ELSE IF segment = <<"/", ".", ".">> THEN output
    ELSE output \o segment

\* One step of the loop of removeDotSegments (lines 52-68): the output after
\* the segment that ends at segmentLength.
appendSegment(output, segment) ==
    IF segment = <<"/", ".">> THEN output
    ELSE IF segment = <<"/", ".", ".">>
         THEN IF RFind(output, "/") # npos
              THEN SubSeq(output, 1, RFind(output, "/"))
              ELSE output
         ELSE output \o segment

RECURSIVE removeDotSegmentsLoop(_, _)
removeDotSegmentsFrom(input, output, segmentLength) ==
    IF segmentLength = npos
    THEN appendSegment(output, Substr(input, 0, segmentLength))
    ELSE removeDotSegmentsLoop(
            Substr(input, segmentLength, npos),
            appendSegment(output, Substr(input, 0, segmentLength)))

\* The loop of removeDotSegments (lines 43-76)
removeDotSegmentsLoop(input, output) ==
    IF input = <<>> THEN output
    ELSE IF input = <<"/">> THEN Append(output, "/")
    ELSE removeDotSegmentsFrom(input, output, Find(input, <<"/">>, 1))

\* removeDotSegments without lines 77-79: an empty output is returned
orSlash_KeepsEmpty(output) == output

\* Lines 77-80: an empty output becomes "/".
orSlash(output) == IF output = <<>> THEN <<"/">> ELSE output

\* RFC 3986 5.2.4 on a non-empty input that starts with '/'
removeDotSegments(input) == orSlash(removeDotSegmentsLoop(input, <<>>))

\* The asserts of the loop of removeDotSegments that fail, by line: line 44
\* (the input left starts with '/') at each iteration, line 64 (the output
\* is empty when "/.." finds no '/' in it).
RECURSIVE failedLoopAsserts(_, _)
failedSegmentAsserts(input, output, segmentLength) ==
    (IF /\ Substr(input, 0, segmentLength) = <<"/", ".", ".">>
        /\ RFind(output, "/") = npos
        /\ output # <<>>
     THEN {64} ELSE {})
    \cup (IF segmentLength = npos THEN {}
          ELSE failedLoopAsserts(
                  Substr(input, segmentLength, npos),
                  appendSegment(output, Substr(input, 0, segmentLength))))

failedLoopAsserts(input, output) ==
    IF input = <<>> THEN {}
    ELSE (IF At(input, 0) # "/" THEN {44} ELSE {})
         \cup (IF input = <<"/">> THEN {}
               ELSE failedSegmentAsserts(input, output,
                                         Find(input, <<"/">>, 1)))

\* The asserts that fail in removeDotSegments(input), that of line 40
\* included
failedAsserts(input) ==
    (IF input = <<>> THEN {40} ELSE IF At(input, 0) # "/" THEN {40} ELSE {})
    \cup failedLoopAsserts(input, <<>>)

isAlphaNum(ch) ==
    \/ (Ord(ch) >= Ord("a") /\ Ord(ch) <= Ord("z"))
    \/ (Ord(ch) >= Ord("0") /\ Ord(ch) <= Ord("9"))
    \/ (Ord(ch) >= Ord("A") \/ Ord(ch) <= Ord("Z"))

isSchemeChar(ch) == isAlphaNum(ch) \/ ch = "+" \/ ch = "." \/ ch = "-"

\* The Url a failed parse stands for, and the value of a default Url.
EmptyUrl ==
    [fullRaw |-> <<>>, path |-> <<>>, query |-> nullopt, params |-> nullopt,
     fragment |-> nullopt]

UrlFailure == [ok |-> FALSE, url |-> EmptyUrl]

\* Url::parse splits the fragment, the query and the params off the same
\* way: at the first delimiter, if there is one, the part after it is kept
\* and urlStr becomes what precedes it (lines 109-113, 152-156, 159-163).
SplitOffAt(urlStr, start) ==
    IF start # npos
    THEN [rest |-> Substr(urlStr, 0, start),
          part |-> Some(Substr(urlStr, start + 1, npos))]
    ELSE [rest |-> urlStr, part |-> nullopt]

SplitOff(urlStr, delim) == SplitOffAt(urlStr, Find(urlStr, <<delim>>, 0))

\* Lines 125-141: the scheme is dropped when every byte before the first ':'
\* is a scheme character.
dropSchemeAt(urlStr, colon) ==
    IF colon # npos /\ \A i \in 0..(colon - 1) : isSchemeChar(At(urlStr, i))
    THEN Substr(urlStr, colon + 1, npos)
    ELSE urlStr

dropScheme(urlStr) == dropSchemeAt(urlStr, Find(urlStr, <<":">>, 0))

\* Lines 144-149: the authority skip
skipAuthority(urlStr) ==
    IF Len(urlStr) >= 2 /\ Substr(urlStr, 0, 2) = <<"/", "/">>
    THEN Substr(urlStr, 2, Find(urlStr, <<"/">>, 2))
    ELSE urlStr

\* Lines 165-172
Url_parsePath(fullRaw, fragment, query, p) ==
    IF p.rest = <<>> \/ At(p.rest, 0) # "/" THEN UrlFailure
    ELSE [ok |-> TRUE,
          url |-> [fullRaw |-> fullRaw, path |-> removeDotSegments(p.rest),
                   query |-> query, params |-> p.part, fragment |-> fragment]]

\* Lines 152-163
Url_parseQuery(fullRaw, fragment, q) ==
    Url_parsePath(fullRaw, fragment, q.part, SplitOff(q.rest, ";"))

\* Lines 115-149
Url_parseScheme(fullRaw, f) ==
    IF f.rest = <<>> THEN UrlFailure
    ELSE Url_parseQuery(fullRaw, f.part,
                        SplitOff(skipAuthority(dropScheme(f.rest)), "?"))

\* Url::parse; the result is [ok, url].
Url_parse(urlStr) ==
    IF urlStr = <<"*">>
    THEN [ok |-> TRUE, url |-> [EmptyUrl EXCEPT !.fullRaw = urlStr]]
    ELSE Url_parseScheme(urlStr, SplitOff(urlStr, "#"))

\* A default-constructed Request; Request::parse assigns method, url, version
\* and headers and leaves the other members as constructed.
EmptyRequest ==
    [method |-> "Get", url |-> EmptyUrl, version |-> <<>>, requestLine |-> <<>>,
     headers |-> <<>>, body |-> <<>>]

RequestFailure == [ok |-> FALSE, req |-> EmptyRequest]

HeadersFailure == [ok |-> FALSE, headers |-> <<>>]

HttpVersion1 == <<"H", "T", "T", "P", "/", "1", ".">>

\* Lines 244-247: the first position from `from' that holds no whitespace
skipWhitespace(line, from) ==
    CHOOSE i \in from..Len(line) :
        /\ i = Len(line) \/ ~isHttpWhitespace(At(line, i))
        /\ \A j \in from..(i - 1) : isHttpWhitespace(At(line, j))

\* Lines 248-251: the first position from `from' that holds whitespace
skipToWhitespace(line, from) ==
    CHOOSE i \in from..Len(line) :
        /\ i = Len(line) \/ isHttpWhitespace(At(line, i))
        /\ \A j \in from..(i - 1) : ~isHttpWhitespace(At(line, j))

\* Line 252
headerValue(line, valueStart) ==
    Substr(line, valueStart, skipToWhitespace(line, valueStart) - valueStart)

RECURSIVE parseHeaderLines(_, _, _)
\* Lines 238-254: one header line
parseHeaderLine(requestStr, lineEnd, headers, line, colon) ==
    IF colon = npos THEN HeadersFailure
    ELSE parseHeaderLines(
            requestStr, lineEnd + 2,
            HeaderAdd(headers, Substr(line, 0, colon),
                      headerValue(line, skipWhitespace(line, colon + 1))))

\* Lines 229-237
parseHeaderLineAt(requestStr, lineStart, lineEnd, headers) ==
    IF lineEnd = npos THEN HeadersFailure
    ELSE IF lineStart = lineEnd THEN [ok |-> TRUE, headers |-> headers]
    ELSE parseHeaderLine(
            requestStr, lineEnd, headers,
            Substr(requestStr, lineStart, lineEnd - lineStart),
            Find(Substr(requestStr, lineStart, lineEnd - lineStart), <<":">>, 0))

\* The header loop of Request::parse (lines 228-256): [ok, headers].
parseHeaderLines(requestStr, lineStart, headers) ==
    IF ~(lineStart < Len(requestStr)) THEN [ok |-> TRUE, headers |-> headers]
    ELSE parseHeaderLineAt(requestStr, lineStart,
                           Find(requestStr, CRLF, lineStart), headers)

\* Where the header loop starts: lines 225-226.
firstHeaderLine(requestLineEnd) == requestLineEnd + 2 + 2

\* Lines 220-223
versionOk(version) ==
    ~ \/ Len(version) # 8
      \/ Substr(version, 0, 7) # HttpVersion1
      \/ (At(version, 7) # "0" /\ At(version, 7) # "1")

\* Lines 225-258
Request_parseHeaders(method, url, version, hdrs) ==
    IF ~hdrs.ok THEN RequestFailure
    ELSE [ok |-> TRUE,
          req |-> [EmptyRequest EXCEPT !.method = method, !.url = url,
                                       !.version = version,
                                       !.headers = hdrs.headers]]

\* Lines 208-223
Request_parseVersion(requestStr, requestLineEnd, method, url, versionStart) ==
    IF ~url.ok THEN RequestFailure
    ELSE IF versionStart > requestLineEnd THEN RequestFailure
    ELSE IF ~versionOk(SubSeq(requestStr, versionStart + 1, requestLineEnd))
         THEN RequestFailure
    ELSE Request_parseHeaders(
            method, url.url, SubSeq(requestStr, versionStart + 1, requestLineEnd),
            parseHeaderLines(requestStr, firstHeaderLine(requestLineEnd), <<>>))

\* Lines 204-214
Request_parseUrl(requestStr, requestLineEnd, method, urlStart, urlLen) ==
    IF urlLen = npos THEN RequestFailure
    ELSE Request_parseVersion(
            requestStr, requestLineEnd, method,
            Url_parse(SubSeq(requestStr, urlStart + 1, urlStart + urlLen)),
            urlStart + urlLen + 1)

\* Lines 190-204
Request_parseMethod(requestStr, requestLineEnd, method, urlStart) ==
    IF ~method.has THEN RequestFailure
    ELSE IF urlStart >= requestLineEnd THEN RequestFailure
    ELSE Request_parseUrl(
            requestStr, requestLineEnd, method.val, urlStart,
            Find(Substr(SubSeq(requestStr, 1, requestLineEnd), urlStart,
                        MaxUrlLength),
                 <<SP>>, 0))

\* Lines 184-199
Request_parseLine(requestStr, requestLineEnd, methodDelim) ==
    IF methodDelim = npos THEN RequestFailure
    ELSE Request_parseMethod(
            requestStr, requestLineEnd,
            parseMethod(SubSeq(requestStr, 1, methodDelim)), methodDelim + 1)

\* Lines 180-186
Request_parseFrom(requestStr, requestLineEnd) ==
    IF requestLineEnd = npos THEN RequestFailure
    ELSE Request_parseLine(
            requestStr, requestLineEnd,
            Find(SubSeq(requestStr, 1, requestLineEnd), <<SP>>, 0))

\* Request::parse; the result is [ok, req].  The request line is the first
\* requestLineEnd bytes of requestStr, so a position in it is a position in
\* requestStr.
Request_parse(requestStr) ==
    Request_parseFrom(requestStr, Find(requestStr, CRLF, 0))

ConnectionName == <<"C", "o", "n", "n", "e", "c", "t", "i", "o", "n">>
CloseValue == <<"c", "l", "o", "s", "e">>
ContentTypeName ==
    <<"C", "o", "n", "t", "e", "n", "t", "-", "T", "y", "p", "e">>
TextPlain == <<"t", "e", "x", "t", "/", "p", "l", "a", "i", "n">>

\* StatusCode::Ok, the status of a Response made without one
StatusOk == 200

\* Response::Response()
DefaultResponse ==
    [code |-> StatusOk, headers |-> <<<<ConnectionName, CloseValue>>>>,
     body |-> <<>>]

\* Response::Response(StatusCode code, std::string body)
ResponseOf(code, body) ==
    [code |-> code,
     headers |-> <<<<ConnectionName, CloseValue>>, <<ContentTypeName, TextPlain>>>>,
     body |-> body]

HttpVersion11 == HttpVersion1 \o <<"1">>

\* Response::string
Response_string(r) ==
    HttpVersion11 \o <<SP>> \o to_string(r.code) \o CRLF
    \o HeaderSerialize(r.headers) \o CRLF \o r.body

-----------------------------------------------------------------------------
(* Byte strings of the server session and of its peer *)

\* The literal 400 response of readRequest (lines 167, 179, 186)
BadRequestResponse ==
    <<"H", "T", "T", "P", "/", "1", ".", "1", " ", "4", "0", "0", " ", "B",
      "a", "d", " ", "R", "e", "q", "u", "e", "s", "t", "\r", "\n", "C", "o",
      "n", "n", "e", "c", "t", "i", "o", "n", ":", " ", "c", "l", "o", "s",
      "e", "\r", "\n", "\r", "\n">>

\* "Content-Length"
ContentLengthName ==
    <<"C", "o", "n", "t", "e", "n", "t", "-", "L", "e", "n", "g", "t", "h">>

\* "keep-alive"
KeepAliveValue ==
    <<"k", "e", "e", "p", "-", "a", "l", "i", "v", "e">>

\* Request lines and header lines the peer of the server session sends
ReqLineGet11 ==
    <<"G", "E", "T", " ", "/", "x", " ", "H", "T", "T", "P", "/", "1", ".",
      "1", "\r", "\n">>

ReqLineGet10 ==
    <<"G", "E", "T", " ", "/", " ", "H", "T", "T", "P", "/", "1", ".", "0",
      "\r", "\n">>

ReqLinePut ==
    <<"P", "U", "T", " ", "/", "p", " ", "H", "T", "T", "P", "/", "1", ".",
      "1", "\r", "\n">>

ReqLineBad ==
    <<"G", "E", "T", " ", "/", "x", " ", "H", "T", "T", "P", "/", "2", ".",
      "0", "\r", "\n">>

HostLine ==
    <<"H", "o", "s", "t", ":", " ", "h", "\r", "\n">>

ContentLengthField ==
    <<"C", "o", "n", "t", "e", "n", "t", "-", "L", "e", "n", "g", "t", "h",
      ":", " ">>

\* "Connection: <value>\r\n"
ConnectionLine(value) == ConnectionName \o <<":", SP>> \o value \o CRLF

PutWithLength(value, body) ==
    ReqLinePut \o HostLine \o ContentLengthField \o value \o CRLF \o CRLF
    \o body

\* What the peer of the server session may send as one request.
PeerMessages ==
    { ReqLineGet11 \o CRLF,
      ReqLineGet10 \o CRLF,
      ReqLineBad \o CRLF,
      PutWithLength(<<"0">>, <<>>),
      PutWithLength(<<"2">>, <<"a", "b">>),
      PutWithLength(to_string(MaxRequestBodySize),
                    [i \in 1..MaxRequestBodySize |-> "z"]),
      PutWithLength(to_string(MaxRequestBodySize + 1), <<>>),
      PutWithLength(<<"x">>, <<>>),
      ReqLineGet10 \o ConnectionLine(KeepAliveValue) \o CRLF,
      ReqLineGet11 \o HostLine \o ConnectionLine(CloseValue) \o CRLF }

\* What the request handler may answer.
HandlerResponses == { DefaultResponse, ResponseOf(StatusOk, <<"h", "i">>) }

\* The byte counts a header recv or a send of len bytes may complete with:
\* whole quanta, or all of it.
IoSizes(len) == {n \in 1..len : n = len \/ n % IoQuantum = 0}

-----------------------------------------------------------------------------
(* Server::Session, src/src/server.hpp.

   The variable server holds the members of one Session with the state of its
   connection: connection_ is "open" until Connection::close is called;
   pending is the sequence of operations submitted on the connection whose
   completion callback has not fired yet; responder tells whether a
   SessionResponder made by processRequest is waiting for respond.

   History members, written by the model only: calls (the shutdown and close
   calls made on the connection, in order), and for the request read last:
   rx (the bytes its header recv delivered), handled (handler invocations),
   responses (calls of respond(std::string, bool)), bodyRecvs (body recvs
   submitted), wire (the bytes the connection accepted from its sends),
   sendFailed, timedOut (a recv ended with ECANCELED), recvFailed (a recv
   ended with another error or with 0 bytes), rxBody (the bytes its body
   recvs delivered), asserts (the lines of the asserts that have failed).   *)

\* An operation submitted on the connection; self tells whether its
\* completion callback captures self = shared_from_this() (lines 136, 209).
RecvOp(phase, len, contentLength) ==
    [op |-> "recv", phase |-> phase, len |-> len, off |-> 0,
     contentLength |-> contentLength, self |-> TRUE]

\* Line 294
SendOp(off, len) ==
    [op |-> "send", phase |-> "response", len |-> len, off |-> off,
     contentLength |-> 0, self |-> TRUE]

\* The shutdown with a callback that captures this only
ShutdownOp_CapturesThisOnly ==
    [op |-> "shutdown", phase |-> "shutdown", len |-> 0, off |-> 0,
     contentLength |-> 0, self |-> FALSE]

\* Lines 148 and 344
ShutdownOp ==
    [op |-> "shutdown", phase |-> "shutdown", len |-> 0, off |-> 0,
     contentLength |-> 0, self |-> TRUE]

\* assert(cond): a failed assert is recorded in the history member asserts
\* under the line it stands on.
Checked(s, cond, line) ==
    IF cond THEN s ELSE [s EXCEPT !.asserts = @ \cup {line}]

\* Submitting an operation on connection_
Submit(s, op) == [s EXCEPT !.pending = Append(@, op)]

\* connection_->close()
Close(s) ==
    [s EXCEPT !.connection_ = "closed", !.calls = Append(@, "close")]

\* Session::shutdown, and the same call at lines 148-149: connection_->shutdown
\* with a callback that closes.
shutdown(s) == Submit([s EXCEPT !.calls = Append(@, "shutdown")], ShutdownOp)

\* readRequest without requestBodyBuffer_.clear() (line 128)
readRequest_KeepsBodyBuffer(s) ==
    LET recvLen == MaxRequestHeaderSize
    IN Submit([s EXCEPT !.requestHeaderBuffer_ = Nuls(recvLen),
                        !.recvTimeout_ = @ + 1],
              RecvOp("header", recvLen, 0))

\* Session::readRequest up to the submission of the recv (lines 125-133)
readRequest(s) ==
    LET recvLen == MaxRequestHeaderSize
    IN Submit([s EXCEPT !.requestHeaderBuffer_ = Nuls(recvLen),
                        !.requestBodyBuffer_ = <<>>,
                        !.recvTimeout_ = @ + 1],
              RecvOp("header", recvLen, 0))

\* Session::start
start(s) == readRequest(s)

\* Session::sendResponse up to the submission of the send (lines 289-293)
sendResponse(s) ==
    Submit(Checked(s, s.responseSendOffset_ < Len(s.responseBuffer_), 291),
           SendOp(s.responseSendOffset_,
                  Len(s.responseBuffer_) - s.responseSendOffset_))

\* Session::respond(std::string, bool)
respondString(s, response, keepAlive) ==
    sendResponse([s EXCEPT !.responseBuffer_ = response,
                           !.responseSendOffset_ = 0,
                           !.keepAlive_ = keepAlive,
                           !.responses = @ + 1])

\* Session::getKeepAlive
getKeepAlive(request) ==
    LET connectionHeader == HeaderGet(request.headers, ConnectionName)
    IN IF connectionHeader.has
          /\ Find(connectionHeader.val, CloseValue, 0) # npos
       THEN FALSE
       ELSE IF connectionHeader.has
               /\ Find(connectionHeader.val, KeepAliveValue, 0) # npos
            THEN TRUE
            ELSE request.version = HttpVersion11

\* Session::respond(Response&&)
respond(s, response) ==
    respondString([s EXCEPT !.response_ = response],
                  Response_string(response), getKeepAlive(s.request_))

\* processRequest reading the next request while the handler holds the
\* responder
processRequest_ReadsOn(s) ==
    readRequest([s EXCEPT !.responder = "held", !.handled = @ + 1])

\* Session::processRequest: the handler is invoked and holds a responder.
processRequest(s) ==
    [s EXCEPT !.responder = "held", !.handled = @ + 1]

\* readRequestBody making room for the body in requestHeaderBuffer_ as well
readRequestBody_GrowsHeaderBuffer(s, contentLength) ==
    LET sizeBeforeRead == Len(s.requestBodyBuffer_)
        recvLen == contentLength - sizeBeforeRead
    IN Submit([s EXCEPT !.requestHeaderBuffer_ = @ \o Nuls(recvLen),
                        !.requestBodyBuffer_ = @ \o Nuls(recvLen),
                        !.bodyRecvs = @ + 1],
              RecvOp("body", recvLen, contentLength))

\* Session::readRequestBody up to the submission of the recv (lines 201-208)
readRequestBody(s, contentLength) ==
    LET sizeBeforeRead == Len(s.requestBodyBuffer_)
        recvLen == contentLength - sizeBeforeRead
    IN Submit([Checked(s, sizeBeforeRead < contentLength, 204)
                  EXCEPT !.requestBodyBuffer_ = @ \o Nuls(recvLen),
                         !.bodyRecvs = @ + 1],
              RecvOp("body", recvLen, contentLength))

\* What a recv of recvLen bytes that delivered data leaves in a buffer whose
\* last recvLen bytes were the recv's target, after the resize to
\* size - recvLen + readBytes.
AfterRecv(buffer, recvLen, data) ==
    SubSeq(buffer, 1, Len(buffer) - recvLen) \o data

\* onLength with the limit test off by one (>= for >)
onLength_RejectsAtLimit(s, length) ==
    IF ~length.has THEN respondString(s, BadRequestResponse, FALSE)
    ELSE IF length.val >= MaxRequestBodySize
         THEN respondString(s, BadRequestResponse, FALSE)
    ELSE IF Len(s.request_.body) < length.val
         THEN readRequestBody(
                 [s EXCEPT !.requestBodyBuffer_ = @ \o s.request_.body,
                           !.request_.body = <<>>],
                 length.val)
    ELSE processRequest(
            [s EXCEPT !.request_.body = Substr(@, 0, length.val)])

\* Lines 183-194: the declared length against maxRequestBodySize and against
\* the body bytes parsed with the headers
onLength(s, length) ==
    IF ~length.has THEN respondString(s, BadRequestResponse, FALSE)
    ELSE IF length.val > MaxRequestBodySize
         THEN respondString(s, BadRequestResponse, FALSE)
    ELSE IF Len(s.request_.body) < length.val
         THEN readRequestBody(
                 [s EXCEPT !.requestBodyBuffer_ = @ \o s.request_.body,
                           !.request_.body = <<>>],
                 length.val)
    ELSE processRequest(
            [s EXCEPT !.request_.body = Substr(@, 0, length.val)])

\* Lines 172-197
onContentLength(s, contentLength) ==
    IF contentLength.has THEN onLength(s, parseInt(contentLength.val))
    ELSE processRequest(s)

\* onRequest answering a parse failure with keep-alive left on
onRequest_KeepAliveOn400(s, request) ==
    IF ~request.ok THEN respondString(s, BadRequestResponse, TRUE)
    ELSE onContentLength([s EXCEPT !.request_ = request.req],
                         HeaderGet(request.req.headers, ContentLengthName))

\* Lines 163-172
onRequest(s, request) ==
    IF ~request.ok THEN respondString(s, BadRequestResponse, FALSE)
    ELSE onContentLength([s EXCEPT !.request_ = request.req],
                         HeaderGet(request.req.headers, ContentLengthName))

\* Line 163
onHeaderBytes(s) == onRequest(s, Request_parse(s.requestHeaderBuffer_))

\* onRecvHeader closing right after it has submitted the shutdown
onRecvHeader_ClosesAfterShutdown(s, recvLen, ec, data) ==
    IF ec # "ok"
    THEN IF ec = "ECANCELED" THEN Close(shutdown(s)) ELSE Close(s)
    ELSE IF Len(data) = 0 THEN Close(s)
    ELSE onHeaderBytes([s EXCEPT !.requestHeaderBuffer_ =
                                    AfterRecv(@, recvLen, data)])

\* The completion callback of the header recv (lines 137-198).  ec is "ok",
\* "ECANCELED" or another error; data are the bytes read (none: readBytes = 0).
onRecvHeader(s, recvLen, ec, data) ==
    IF ec # "ok"
    THEN IF ec = "ECANCELED" THEN shutdown(s) ELSE Close(s)
    ELSE IF Len(data) = 0 THEN Close(s)
    ELSE onHeaderBytes([s EXCEPT !.requestHeaderBuffer_ =
                                    AfterRecv(@, recvLen, data)])

\* Lines 225-231
onBodyBytes(s, contentLength) ==
    IF Len(s.requestBodyBuffer_) < contentLength
    THEN readRequestBody(s, contentLength)
    ELSE processRequest(
            [Checked(s, Len(s.requestBodyBuffer_) = contentLength, 228)
                EXCEPT !.request_.body = s.requestBodyBuffer_])

\* onRecvBody attempting a shutdown when the peer has closed
onRecvBody_ShutdownOnPeerClose(s, recvLen, contentLength, ec, data) ==
    IF ec # "ok" THEN Close(s)
    ELSE IF Len(data) = 0 THEN shutdown(s)
    ELSE onBodyBytes([s EXCEPT !.requestBodyBuffer_ =
                                  AfterRecv(@, recvLen, data)],
                     contentLength)

\* The completion callback of a body recv (lines 210-232)
onRecvBody(s, recvLen, contentLength, ec, data) ==
    IF ec # "ok" THEN Close(s)
    ELSE IF Len(data) = 0 THEN Close(s)
    ELSE onBodyBytes([s EXCEPT !.requestBodyBuffer_ =
                                  AfterRecv(@, recvLen, data)],
                     contentLength)

\* onSend without the return that ends the partial-send branch (line 318)
onSend_NoReturnAfterPartial(s, ec, sentBytes) ==
    IF ec # "ok" THEN Close(s)
    ELSE IF sentBytes = 0 THEN Close(s)
    ELSE IF s.responseSendOffset_ + sentBytes < Len(s.responseBuffer_)
         THEN IF s.keepAlive_
              THEN start(sendResponse(
                            [s EXCEPT !.responseSendOffset_ = @ + sentBytes]))
              ELSE shutdown(sendResponse(
                               [s EXCEPT !.responseSendOffset_ = @ + sentBytes]))
    ELSE IF s.keepAlive_ THEN start(s)
    ELSE shutdown(s)

\* onSend without the partial-send branch (lines 315-319)
onSend_IgnoresPartial(s, ec, sentBytes) ==
    IF ec # "ok" THEN Close(s)
    ELSE IF sentBytes = 0 THEN Close(s)
    ELSE IF s.keepAlive_ THEN start(s)
    ELSE shutdown(s)

\* onSend re-arming a partial send without advancing the offset (line 316)
onSend_ResendsFromStart(s, ec, sentBytes) ==
    IF ec # "ok" THEN Close(s)
    ELSE IF sentBytes = 0 THEN Close(s)
    ELSE IF s.responseSendOffset_ + sentBytes < Len(s.responseBuffer_)
         THEN sendResponse(s)
    ELSE IF s.keepAlive_ THEN start(s)
    ELSE shutdown(s)

\* onSend with the test of line 315 off by one (<= for <)
onSend_RearmsWhenComplete(s, ec, sentBytes) ==
    IF ec # "ok" THEN Close(s)
    ELSE IF sentBytes = 0 THEN Close(s)
    ELSE IF s.responseSendOffset_ + sentBytes <= Len(s.responseBuffer_)
         THEN sendResponse([Checked(s, sentBytes > 0, 314)
                               EXCEPT !.responseSendOffset_ = @ + sentBytes])
    ELSE IF s.keepAlive_ THEN start(Checked(s, sentBytes > 0, 314))
    ELSE shutdown(Checked(s, sentBytes > 0, 314))

\* The completion callback of a send (lines 294-337)
onSend(s, ec, sentBytes) ==
    IF ec # "ok" THEN Close(s)
    ELSE IF sentBytes = 0 THEN Close(s)
    ELSE IF s.responseSendOffset_ + sentBytes < Len(s.responseBuffer_)
         THEN sendResponse([Checked(s, sentBytes > 0, 314)
                               EXCEPT !.responseSendOffset_ = @ + sentBytes])
    ELSE IF s.keepAlive_ THEN start(Checked(s, sentBytes > 0, 314))
    ELSE shutdown(Checked(s, sentBytes > 0, 314))

\* The completion callback of a shutdown (lines 148-149 and 344-347)
onShutdown(s) == Close(s)

-----------------------------------------------------------------------------
(* The server session's actions *)

\* The session as the acceptor constructs it (lines 83-93); keepAlive_ has no
\* initializer.
InitialSession(keepAlive) ==
    [started |-> FALSE, connection_ |-> "open", pending |-> <<>>,
     requestHeaderBuffer_ |-> <<>>, requestBodyBuffer_ |-> <<>>,
     responseBuffer_ |-> <<>>, request_ |-> EmptyRequest,
     response_ |-> DefaultResponse, recvTimeout_ |-> 0,
     responseSendOffset_ |-> 0, keepAlive_ |-> keepAlive,
     responder |-> "none", calls |-> <<>>, rx |-> <<>>, handled |-> 0,
     responses |-> 0, bodyRecvs |-> 0, wire |-> <<>>, sendFailed |-> FALSE,
     timedOut |-> FALSE, recvFailed |-> FALSE, rxBody |-> <<>>,
     asserts |-> {}]

\* The peer of the server session: the bytes it has written that no recv has
\* delivered yet, and how many requests it will still write.
InitialPeer == [stream |-> <<>>, requestsLeft |-> MaxRequests]

\* The operation whose completion fires next: callbacks of one connection
\* fire in submission order.
NextOp == Head(server.pending)

Pop(s) == [s EXCEPT !.pending = Tail(@)]

\* The history of the request read last starts anew when a header recv
\* delivers bytes.
NewRequest(s, data) ==
    [s EXCEPT !.rx = data, !.handled = 0, !.responses = 0, !.bodyRecvs = 0,
              !.wire = <<>>, !.sendFailed = FALSE, !.rxBody = <<>>]

\* How a recv may complete: with an error, with 0 bytes (the peer closed),
\* or with the first n of the bytes the peer has sent, n among sizes.
RecvOutcomes(sizes) ==
    {[ec |-> e, n |-> 0] : e \in {"ECANCELED", "ECONNRESET", "ok"}}
    \cup {[ec |-> "ok", n |-> k] : k \in sizes}

\* How a send of len bytes may complete: with an error, with 0 bytes, or
\* having taken the first n bytes.
SendOutcomes(len) ==
    {[ec |-> e, n |-> 0] : e \in {"EPIPE", "ok"}}
    \cup {[ec |-> "ok", n |-> k] : k \in IoSizes(len)}

\* The history's record of a recv completion
Arrived(s, phase, o, data) ==
    IF o.ec = "ECANCELED" THEN [s EXCEPT !.timedOut = TRUE]
    ELSE IF o.ec # "ok" \/ o.n = 0 THEN [s EXCEPT !.recvFailed = TRUE]
    ELSE IF phase = "header" THEN NewRequest(s, data)
    ELSE [s EXCEPT !.rxBody = @ \o data]

\* The history's record of a send completion
Departed(s, o, data) ==
    IF o.ec # "ok" \/ o.n = 0 THEN [s EXCEPT !.sendFailed = TRUE]
    ELSE [s EXCEPT !.wire = @ \o data]

\* handleAccept calls start() right after constructing the session (line 402).
Start ==
    /\ ~server.started
    /\ server' = start([server EXCEPT !.started = TRUE])
    /\ UNCHANGED <<peer, client, listener, codec>>

\* The peer writes one more request to the connection.
PeerSend ==
    /\ server.started
    /\ server.connection_ = "open"
    /\ peer.stream = <<>>
    /\ peer.requestsLeft > 0
    /\ \E m \in PeerMessages :
          peer' = [stream |-> m, requestsLeft |-> peer.requestsLeft - 1]
    /\ UNCHANGED <<server, client, listener, codec>>

\* The header recv completes.
RecvHeaderDone ==
    /\ server.pending # <<>>
    /\ NextOp.op = "recv" /\ NextOp.phase = "header"
    /\ \E o \in RecvOutcomes(IoSizes(Min(NextOp.len, Len(peer.stream)))) :
          /\ server' = onRecvHeader(
                          Arrived(Pop(server), "header", o,
                                  SubSeq(peer.stream, 1, o.n)),
                          NextOp.len, o.ec, SubSeq(peer.stream, 1, o.n))
          /\ peer' = [peer EXCEPT !.stream = SubSeq(@, o.n + 1, Len(@))]
    /\ UNCHANGED <<client, listener, codec>>

\* A body recv completes.
RecvBodyDone ==
    /\ server.pending # <<>>
    /\ NextOp.op = "recv" /\ NextOp.phase = "body"
    /\ \E o \in RecvOutcomes(1..Min(NextOp.len, Len(peer.stream))) :
          /\ server' = onRecvBody(
                          Arrived(Pop(server), "body", o,
                                  SubSeq(peer.stream, 1, o.n)),
                          NextOp.len, NextOp.contentLength, o.ec,
                          SubSeq(peer.stream, 1, o.n))
          /\ peer' = [peer EXCEPT !.stream = SubSeq(@, o.n + 1, Len(@))]
    /\ UNCHANGED <<client, listener, codec>>

\* The application's handler calls respond on the responder it holds.
HandlerRespond ==
    /\ server.responder = "held"
    /\ \E r \in HandlerResponses :
          server' = respond([server EXCEPT !.responder = "none"], r)
    /\ UNCHANGED <<peer, client, listener, codec>>

\* A send completes; the bytes it took are those of responseBuffer_ from
\* the offset it was submitted with.
SendDone ==
    /\ server.pending # <<>>
    /\ NextOp.op = "send"
    /\ \E o \in SendOutcomes(NextOp.len) :
          server' = onSend(
                       Departed(Pop(server), o,
                                Substr(server.responseBuffer_, NextOp.off, o.n)),
                       o.ec, o.n)
    /\ UNCHANGED <<peer, client, listener, codec>>

\* A shutdown completes; its callback fires whatever the outcome.
ShutdownDone ==
    /\ server.pending # <<>>
    /\ NextOp.op = "shutdown"
    /\ server' = onShutdown(Pop(server))
    /\ UNCHANGED <<peer, client, listener, codec>>

ServerNext ==
    \/ Start
    \/ PeerSend
    \/ RecvHeaderDone
    \/ RecvBodyDone
    \/ HandlerRespond
    \/ SendDone
    \/ ShutdownDone

\* The server session alone; the client session does not take part.
ServerInit ==
    /\ server \in {InitialSession(ka) : ka \in BOOLEAN}
    /\ peer = InitialPeer
    /\ client = <<>>
    /\ listener = <<>>
    /\ codec = <<>>

ServerSpec == ServerInit /\ [][ServerNext]_vars

-----------------------------------------------------------------------------
(* Properties of the server session *)

RecvOrSend == {"recv", "send"}

Outstanding(ops) ==
    {i \in DOMAIN server.pending : server.pending[i].op \in ops}

\* The session has gone on after the response: it reads the next request or
\* has called shutdown or close.
MovedOn ==
    \/ \E i \in Outstanding({"recv"}) : server.pending[i].phase = "header"
    \/ server.calls # <<>>

\* C1: at most one recv or send is outstanding on the session's connection
\* in every reachable state: none is submitted before the completion
\* callback of the one before has fired.
C1_OneOutstandingIo == Cardinality(Outstanding(RecvOrSend)) <= 1

\* C1's case: a send re-armed after a partial send of the handler's response.
C1_Witness ==
    /\ server.handled = 1
    /\ server.responseSendOffset_ > 0
    /\ Cardinality(Outstanding({"send"})) = 1

\* C2: for a request passed to the handler, at most one response is written
\* (the bytes on the wire are a prefix of the one response), and when the
\* session goes on to the next request or to shutdown or close with no send
\* having failed, exactly one response has been written completely.
C2_OneResponsePerRequest ==
    server.handled >= 1 =>
        /\ server.responses <= 1
        /\ server.responses = 0 => server.wire = <<>>
        /\ server.responses = 1 => IsPrefix(server.wire, server.responseBuffer_)
        /\ (MovedOn /\ ~server.sendFailed) =>
              /\ server.responses = 1
              /\ server.wire = server.responseBuffer_

\* C2's case: the handler's response is on the wire and the session reads the
\* next request.
C2_Witness ==
    /\ server.handled = 1
    /\ server.responses = 1
    /\ server.wire = server.responseBuffer_
    /\ \E i \in Outstanding({"recv"}) : server.pending[i].phase = "header"

ShutdownThenClose == {<<"shutdown">>, <<"shutdown", "close">>}

\* C8: when the bytes of the header recv do not parse, the handler is not
\* invoked, the one response is the literal 400 with keep-alive false, no
\* further recv is submitted, and once the response is sent completely the
\* session calls shutdown and then close.
C8_ParseFailure ==
    (server.rx # <<>> /\ ~Request_parse(server.rx).ok) =>
        /\ server.handled = 0 /\ server.responder = "none"
        /\ server.responses = 1
        /\ server.responseBuffer_ = BadRequestResponse
        /\ ~server.keepAlive_
        /\ IsPrefix(server.wire, BadRequestResponse)
        /\ Outstanding({"recv"}) = {} /\ server.bodyRecvs = 0
        /\ server.wire = BadRequestResponse => server.calls \in ShutdownThenClose
        /\ (server.wire # BadRequestResponse /\ ~server.sendFailed) =>
              /\ server.calls = <<>>
              /\ Cardinality(Outstanding({"send"})) = 1

\* C8's case: a request that does not parse was answered and the connection
\* shut down and closed.
C8_Witness ==
    /\ server.rx # <<>> /\ ~Request_parse(server.rx).ok
    /\ server.wire = BadRequestResponse
    /\ server.calls = <<"shutdown", "close">>

\* Whether the request read last was answered with the literal 400, without
\* the handler and without a body recv.
Rejected ==
    /\ server.responses = 1
    /\ server.responseBuffer_ = BadRequestResponse
    /\ ~server.keepAlive_
    /\ server.handled = 0 /\ server.responder = "none"
    /\ server.bodyRecvs = 0 /\ Outstanding({"recv"}) = {}
    /\ IsPrefix(server.wire, BadRequestResponse)
    /\ server.wire = BadRequestResponse => server.calls \in ShutdownThenClose

\* Whether the request read last went on to the body read or to the handler.
Accepted ==
    /\ server.bodyRecvs >= 1 \/ server.handled = 1
    /\ server.responses >= 1 =>
          /\ server.handled = 1
          /\ server.responseBuffer_ # BadRequestResponse

TooLongOrUnparseable(length) ==
    ~length.has \/ length.val > MaxRequestBodySize

ContentLengthOf(request) == HeaderGet(request.req.headers, ContentLengthName)

C9_AcceptedAtLimit ==
    /\ Request_parse(server.rx).ok
    /\ ContentLengthOf(Request_parse(server.rx)) =
          Some(to_string(MaxRequestBodySize))
    /\ server.handled = 1

\* C10: whenever a recv of the session, in the header phase or in the body
\* phase, has ended with ECANCELED, the session has called shutdown first
\* and close only after it.
C10_TimeoutShutsDown == server.timedOut => server.calls \in ShutdownThenClose

\* Whether a recv has ended with an error other than ECANCELED or with 0
\* bytes, or a send with an error or with 0 bytes
HardFailure == server.recvFailed \/ server.sendFailed

\* C11: once a recv has ended with an error other than ECANCELED or with 0
\* bytes, or a send with an error or 0 bytes, the only call made on the
\* connection is close (no shutdown), nothing is outstanding, the handler
\* holds no responder, and the session never changes again: no handler
\* call, no byte written, no recv submitted.
C11_FailureJustCloses ==
    /\ [](HardFailure =>
            /\ server.calls = <<"close">>
            /\ server.connection_ = "closed"
            /\ server.pending = <<>>
            /\ server.responder = "none")
    /\ [][HardFailure => server' = server]_vars

\* C11's cases: a header recv met a closed peer; a body recv failed; a send
\* failed after a part of the response had been written.
C11_Witness ==
    /\ server.recvFailed
    /\ server.bodyRecvs >= 1
    /\ server.calls = <<"close">>

C11_SendFailedWitness ==
    /\ server.sendFailed
    /\ server.wire # <<>>
    /\ server.calls = <<"close">>

\* The bytes of a header recv that follow the blank line ending the headers
BodyAfterBlankLine(rx, blankLine) ==
    IF blankLine = npos THEN <<>> ELSE Substr(rx, blankLine + 4, npos)

BodyReadWithHeaders(rx) == BodyAfterBlankLine(rx, Find(rx, CRLF \o CRLF, 0))

\* The declared length of the request read last, if it parsed with a
\* Content-Length within the limit; nothing otherwise.
DeclaredLengthOf(request, length) ==
    IF request.ok /\ length.has /\ length.val <= MaxRequestBodySize
    THEN length ELSE [has |-> FALSE, val |-> 0]

DeclaredLengthIn(request, contentLength) ==
    DeclaredLengthOf(request,
                     IF contentLength.has THEN parseInt(contentLength.val)
                     ELSE [has |-> FALSE, val |-> 0])

DeclaredLength ==
    IF server.rx = <<>> THEN [has |-> FALSE, val |-> 0]
    ELSE DeclaredLengthIn(Request_parse(server.rx),
                          ContentLengthOf(Request_parse(server.rx)))

\* C12: when the header recv delivered at least Content-Length bytes after
\* the blank line, the handler has been invoked without a body recv and
\* request_.body is the first Content-Length bytes after the blank line.
C12_BodyWithHeaders ==
    (/\ DeclaredLength.has
     /\ Len(BodyReadWithHeaders(server.rx)) >= DeclaredLength.val) =>
        /\ server.bodyRecvs = 0
        /\ server.handled = 1
        /\ server.request_.body =
              Substr(BodyReadWithHeaders(server.rx), 0, DeclaredLength.val)

\* The body bytes of the request read last, in arrival order: those read
\* with the headers, then those the body recvs delivered.
BodyArrived == BodyReadWithHeaders(server.rx) \o server.rxBody

\* C13: when Content-Length exceeds the body bytes read with the headers,
\* the body buffer never exceeds Content-Length, the handler is invoked only
\* once Content-Length body bytes have arrived, and request_.body is then
\* the bytes read with the headers followed by the later ones.
C13_BodyAcrossRecvs ==
    (/\ DeclaredLength.has
     /\ Len(BodyReadWithHeaders(server.rx)) < DeclaredLength.val) =>
        /\ Len(server.requestBodyBuffer_) <= DeclaredLength.val
        /\ server.handled = 1 =>
              /\ server.request_.body = BodyArrived
              /\ Len(BodyArrived) = DeclaredLength.val
        /\ server.handled = 0 => Len(BodyArrived) < DeclaredLength.val

\* The header lines of the bytes rx, read from the line that follows the
\* request line
HeaderLinesFrom(rx, requestLineEnd) ==
    IF requestLineEnd = npos THEN HeadersFailure
    ELSE parseHeaderLines(rx, requestLineEnd + 2, <<>>)

HeaderLinesOf(rx) == HeaderLinesFrom(rx, Find(rx, CRLF, 0))

\* The decision the Connection header and the version call for
KeepAliveFor(connectionHeader, version) ==
    IF connectionHeader = Some(CloseValue) THEN FALSE
    ELSE IF connectionHeader = Some(KeepAliveValue) THEN TRUE
    ELSE version = HttpVersion11

\* C14: when the session answers a handled request, keepAlive_ is false if
\* the request's Connection header says close, else true if it says
\* keep-alive, else true exactly when the request's version is HTTP/1.1.
C14_KeepAliveDecision ==
    (/\ server.handled = 1
     /\ server.responses = 1
     /\ HeaderLinesOf(server.rx).ok) =>
        server.keepAlive_ =
           KeepAliveFor(HeaderGet(HeaderLinesOf(server.rx).headers,
                                  ConnectionName),
                        server.request_.version)

\* The same decision over the headers Request::parse stored in request_
KeepAliveOfParsedRequest ==
    (server.handled = 1 /\ server.responses = 1) =>
        server.keepAlive_ =
           KeepAliveFor(HeaderGet(server.request_.headers, ConnectionName),
                        server.request_.version)

\* A step in which the send that takes the last byte of the response
\* completes
LastByteSent ==
    /\ server.pending # <<>>
    /\ Head(server.pending).op = "send"
    /\ server.wire # server.responseBuffer_
    /\ server'.wire = server.responseBuffer_

\* C15: in the step that sends the last byte of a response, a session with
\* keepAlive_ set submits one header recv with requestHeaderBuffer_ holding
\* only the recv's target, requestBodyBuffer_ empty and recvTimeout_ set
\* anew, and calls neither shutdown nor close; a session with keepAlive_
\* unset calls shutdown.  Once shutdown has been called no recv or send is
\* outstanding and the only call that follows is close, made when the
\* shutdown completes.
C15_AfterLastByte ==
    /\ [][LastByteSent =>
            IF server.keepAlive_
            THEN /\ server'.pending = <<RecvOp("header", MaxRequestHeaderSize, 0)>>
                 /\ server'.requestHeaderBuffer_ = Nuls(MaxRequestHeaderSize)
                 /\ server'.requestBodyBuffer_ = <<>>
                 /\ server'.recvTimeout_ = server.recvTimeout_ + 1
                 /\ server'.calls = <<>>
            ELSE /\ server'.pending = <<ShutdownOp>>
                 /\ server'.calls = <<"shutdown">>]_vars
    /\ []((server.calls # <<>> /\ server.calls[1] = "shutdown") =>
            IF server.pending = <<>>
            THEN server.calls = <<"shutdown", "close">>
            ELSE server.pending = <<ShutdownOp>> /\ server.calls = <<"shutdown">>)

\* C15's cases: after the response to a request whose body was read
\* separately the session reads the next request; after a response with
\* keep-alive unset the session has shut down and closed.
C15_Witness ==
    /\ server.handled = 1
    /\ server.bodyRecvs >= 1
    /\ server.wire = server.responseBuffer_
    /\ server.keepAlive_
    /\ server.pending = <<RecvOp("header", MaxRequestHeaderSize, 0)>>
    /\ server.requestBodyBuffer_ = <<>>
    /\ server.recvTimeout_ = 2

C15_ClosedWitness ==
    /\ server.handled = 1
    /\ server.wire = server.responseBuffer_
    /\ ~server.keepAlive_
    /\ server.calls = <<"shutdown", "close">>

\* A step in which a send completes and the session goes on to read the
\* next request or to shut down
StepAfterSend ==
    /\ server.pending # <<>>
    /\ Head(server.pending).op = "send"
    /\ server'.pending # <<>>
    /\ Head(server'.pending).op \in {"recv", "shutdown"}

\* C23: every send of the response starts at the current send offset, which
\* is the number of bytes sent so far, and covers the rest of the response,
\* the bytes sent so far being the response's first bytes (in order, no gap,
\* no overlap); the session goes on to the next request or to shutdown only
\* in a step that makes the bytes sent the whole response.
C23_PartialSends ==
    /\ [](\A i \in Outstanding({"send"}) :
            /\ server.pending[i].off = server.responseSendOffset_
            /\ server.pending[i].off = Len(server.wire)
            /\ server.pending[i].len =
                   Len(server.responseBuffer_) - server.responseSendOffset_
            /\ server.pending[i].len > 0
            /\ IsPrefix(server.wire, server.responseBuffer_))
    /\ [][StepAfterSend => server'.wire = server.responseBuffer_]_vars

\* C23's case: a response went out in more than one send and the session
\* shut down and closed afterwards.
C23_Witness ==
    /\ server.responses = 1
    /\ server.responseSendOffset_ > 0
    /\ server.wire = server.responseBuffer_
    /\ ~server.keepAlive_ /\ server.handled = 0
    /\ server.calls = <<"shutdown", "close">>

\* The strong references to the session: one in the callback of each
\* outstanding operation that captures self, one in the responder the
\* handler holds.
StrongReferences ==
    Cardinality({i \in DOMAIN server.pending : server.pending[i].self})
    + (IF server.responder = "held" THEN 1 ELSE 0)

\* C28: while the handler holds the responder and has not called respond,
\* the session has nothing outstanding, has written no byte of a response
\* and has called neither shutdown nor close, the responder's reference is
\* the only strong reference to it, and no step other than respond changes
\* the session: it submits nothing, writes nothing, and does not shut down
\* or close.
C28_WaitsForRespond ==
    /\ [](server.responder = "held" =>
            /\ server.pending = <<>>
            /\ server.handled = 1 /\ server.responses = 0
            /\ server.wire = <<>>
            /\ server.calls = <<>> /\ server.connection_ = "open"
            /\ StrongReferences = 1)
    /\ [][(server.responder = "held" /\ server'.responder = "held") =>
            server' = server]_vars

\* C28's case: the handler holds the responder of a request whose body was
\* read separately, and the peer has written its next request, which the
\* session does not read.
C28_Witness ==
    /\ server.responder = "held"
    /\ server.bodyRecvs >= 1
    /\ peer.stream # <<>>
    /\ peer.requestsLeft = 0

\* How many times close has been called on the connection
CloseCalls ==
    Cardinality({i \in DOMAIN server.calls : server.calls[i] = "close"})

\* C30: close is called on the connection at most once; the calls made are
\* never taken back, and from the first call of shutdown or close on no
\* recv or send is outstanding, so none is submitted after it.
C30_CloseOnce ==
    /\ [](/\ CloseCalls <= 1
          /\ server.calls # <<>> => Outstanding(RecvOrSend) = {})
    /\ [][IsPrefix(server.calls, server'.calls)]_vars

\* C30's case: a header recv timed out, the session shut down and the
\* callback of the shutdown closed the connection.
C30_Witness ==
    /\ server.timedOut
    /\ server.recvTimeout_ = 2
    /\ server.calls = <<"shutdown", "close">>
    /\ server.pending = <<>>

\* A step in which a recv of the given phase completes
RecvCompletes(phase) ==
    /\ server.pending # <<>>
    /\ Head(server.pending).op = "recv"
    /\ Head(server.pending).phase = phase

\* A step in which a header read starts: readRequest has run.
HeaderReadStarts ==
    /\ ~RecvCompletes("header")
    /\ server'.pending = <<RecvOp("header", MaxRequestHeaderSize, 0)>>

\* C26: requestHeaderBuffer_ changes only in a step that starts a header
\* read, which makes it the recv's target, and in the step in which the
\* header recv completes, which leaves the bytes received in it; so it is
\* left alone while the body is read, the handler runs and the response is
\* sent.  A body recv that delivers bytes puts them in requestBodyBuffer_
\* where its target began.
C26_HeaderBufferFrame ==
    /\ [][server'.requestHeaderBuffer_ # server.requestHeaderBuffer_ =>
            \/ /\ HeaderReadStarts
               /\ server'.requestHeaderBuffer_ = Nuls(MaxRequestHeaderSize)
            \/ /\ RecvCompletes("header")
               /\ server'.rx # <<>>
               /\ server'.requestHeaderBuffer_ = server'.rx]_vars
    /\ [][(RecvCompletes("body") /\ server'.rxBody # server.rxBody) =>
            IsPrefix(SubSeq(server.requestBodyBuffer_, 1,
                            Len(server.requestBodyBuffer_)
                               - Head(server.pending).len)
                        \o SubSeq(server'.rxBody, Len(server.rxBody) + 1,
                                  Len(server'.rxBody)),
                     server'.requestBodyBuffer_)]_vars

\* C26's case: the body came in more than one body recv, the handler has
\* answered, a part of the response is sent, and requestHeaderBuffer_
\* still holds the bytes of the header recv.
C26_Witness ==
    /\ server.bodyRecvs >= 2
    /\ server.handled = 1
    /\ server.responses = 1
    /\ server.wire # <<>>
    /\ Cardinality(Outstanding({"send"})) = 1
    /\ server.requestHeaderBuffer_ = server.rx

-----------------------------------------------------------------------------
(* ClientSession, src/src/client.hpp.

   The variable client holds the members of one ClientSession: callback_ is
   0 for nullptr and otherwise the number of the request call whose callback
   is stored; connection_ is "null" or "set" (the unique_ptr owns a
   connection); connectAddr_ is the ss_family of the stored address.  sock
   tells what the connection's socket is: "none", "bad" (socket() gave -1),
   "unconnected", "connected" or "closed".  pending is the sequence of
   operations submitted to the I/O queue that have not completed.

   History members, written by the model only: calls (request calls so far),
   accepted (those that returned true), lastReturn (what the last call
   returned), and for the request accepted last: invocations (the arguments
   of each invocation of callback_), ioAfterFailure (an operation was
   submitted after callback_ had been invoked), closes (close calls), sent
   (the bytes the connection accepted from the sends), recvs (recvs
   submitted), asserts (the lines of the asserts that have failed).         *)

\* "Host"
HostName ==
    <<"H", "o", "s", "t">>

\* " HTTP/1.1\r\n" (line 235)
HttpTail ==
    <<" ", "H", "T", "T", "P", "/", "1", ".", "1", "\r", "\n">>

\* Pieces of what the server of the client session may reply
StatusLineOk ==
    <<"H", "T", "T", "P", "/", "1", ".", "1", " ", "2", "0", "0", " ", "O",
      "K", "\r", "\n">>

ReplyGarbage ==
    <<"H", "T", "T", "P", "/", "2", " ", "2", "0", "0", "\r", "\n", "\r",
      "\n">>

\* recvLen of recvHeader
ClientRecvLen == 1024

\* defaultPort<TcpConnection>
DefaultPort == 80

\* The port an application may give that is not the default one
OtherPort == 8080

\* An operation handed to the I/O queue; self tells whether its callbacks
\* capture self = shared_from_this() (lines 148, 179, 76 and 97, 130).
ClientSendOp(off, len) ==
    [op |-> "send", off |-> off, len |-> len, sock |-> "", self |-> TRUE]
ClientRecvOp(len) ==
    [op |-> "recv", off |-> 0, len |-> len, sock |-> "", self |-> TRUE]
ResolveOp ==
    [op |-> "resolve", off |-> 0, len |-> 0, sock |-> "", self |-> TRUE]
ConnectOp(sock) ==
    [op |-> "connect", off |-> 0, len |-> 0, sock |-> sock, self |-> TRUE]

\* Handing an operation to the I/O queue
ClientSubmit(c, op) ==
    [c EXCEPT !.pending = Append(@, op),
              !.ioAfterFailure = @ \/ c.invocations # <<>>]

\* callback_(ec, response)
Invoke(c, ec, response) ==
    [c EXCEPT !.invocations = Append(@, [ec |-> ec, response |-> response])]

\* connection_->close()
ClientClose(c) == [c EXCEPT !.sock = "closed", !.closes = @ + 1]

\* ClientSession::serializeRequest
serializeRequest(c, method, target, headers, body) ==
    toString(method) \o <<SP>> \o target \o HttpTail
    \o (IF ~HeaderContains(headers, HostName)
        THEN HostName \o <<":", SP>> \o c.host_
             \o (IF c.port_ # DefaultPort
                 THEN <<":">> \o to_string(c.port_) ELSE <<>>)
             \o CRLF
        ELSE <<>>)
    \o HeaderSerialize(headers) \o CRLF \o body

\* ClientSession::resolve up to handing the lookup to the I/O queue
resolve(c) == ClientSubmit(c, ResolveOp)

\* ClientSession::connect; sock is what ::socket returns ("bad" for -1).
connect(c, sock) ==
    IF c.connectAddr_ = "AF_UNSPEC"
    THEN resolve(Checked(c, c.connection_ = "null", 117))
    ELSE ClientSubmit(
            Checked(Checked(IF sock = "bad"
                            THEN Invoke(c, "EMFILE", DefaultResponse) ELSE c,
                            c.connection_ = "null", 117),
                    c.connectAddr_ \in {"AF_INET", "AF_INET6"}, 126),
            ConnectOp(sock))

\* ClientSession::send up to the submission of the send (lines 144-147)
send(c) ==
    ClientSubmit(Checked(c, c.sendCursor_ < Len(c.requestBuffer_), 146),
                 ClientSendOp(c.sendCursor_,
                              Len(c.requestBuffer_) - c.sendCursor_))

\* ClientSession::recvHeader up to the submission of the recv (lines 174-178)
recvHeader(c) ==
    ClientSubmit(
        [c EXCEPT !.responseBuffer_ =
                     SubSeq(@ \o Nuls(ClientRecvLen), 1, ClientRecvLen),
                  !.recvs = @ + 1],
        ClientRecvOp(ClientRecvLen))

\* The history of an accepted request starts anew.
Accept(c) ==
    [c EXCEPT !.accepted = @ + 1, !.lastReturn = "true", !.invocations = <<>>,
              !.ioAfterFailure = FALSE, !.closes = 0, !.sent = <<>>,
              !.recvs = 0]

\* Lines 49-55 of ClientSession::request: the callback and the serialized
\* request are stored, and connect() is called if there is no connection.
storeRequest(c, buffer, cb, sock) ==
    IF c.connection_ = "null"
    THEN connect([Accept(c) EXCEPT !.callback_ = cb, !.requestBuffer_ = buffer],
                 sock)
    ELSE [Accept(c) EXCEPT !.callback_ = cb, !.requestBuffer_ = buffer]

\* A request that serializes into requestBuffer_ before it looks at
\* callback_
request_SerializesFirst(c, method, target, headers, body, cb, sock) ==
    IF c.callback_ # 0
    THEN [c EXCEPT !.lastReturn = "false",
                   !.requestBuffer_ =
                      serializeRequest(c, method, target, headers, body)]
    ELSE storeRequest(c, serializeRequest(c, method, target, headers, body),
                      cb, sock)

\* ClientSession::request; cb numbers the callback given, sock is what
\* ::socket returns should connect() come to call it.
request(c, method, target, headers, body, cb, sock) ==
    IF c.callback_ # 0 THEN [c EXCEPT !.lastReturn = "false"]
    ELSE storeRequest(c, serializeRequest(c, method, target, headers, body),
                      cb, sock)

\* The consumer of the resolve (lines 97-112); addrs holds the ss_family of
\* each address found.
onResolve(c, ec, addrs, sock) ==
    IF ec # "ok" THEN Invoke(c, ec, DefaultResponse)
    ELSE IF addrs = <<>> THEN Invoke(c, "host_unreachable", DefaultResponse)
    ELSE connect([c EXCEPT !.connectAddr_ = addrs[1]], sock)

\* Lines 135-138: the connection the factory makes of sock
Connected(c, sock, ec) ==
    [c EXCEPT !.connection_ = "set",
              !.sock = IF sock = "bad" THEN "bad"
                       ELSE IF ec = "ok" THEN "connected" ELSE "unconnected"]

\* The completion callback of the connect (lines 130-140)
onConnect(c, sock, ec) ==
    send(Connected(IF ec # "ok" THEN Invoke(c, ec, DefaultResponse) ELSE c,
                   sock, ec))

\* onClientSend without the partial-send branch (lines 164-168)
onClientSend_IgnoresPartial(c, ec, sentBytes) ==
    IF ec # "ok" THEN ClientClose(Invoke(c, ec, DefaultResponse))
    ELSE IF sentBytes = 0
         THEN ClientClose(Invoke(c, "no_message_available", DefaultResponse))
    ELSE recvHeader(c)

\* The completion callback of a send (lines 148-171)
onClientSend(c, ec, sentBytes) ==
    IF ec # "ok" THEN ClientClose(Invoke(c, ec, DefaultResponse))
    ELSE IF sentBytes = 0
         THEN ClientClose(Invoke(c, "no_message_available", DefaultResponse))
    ELSE IF c.sendCursor_ + sentBytes < Len(c.requestBuffer_)
         THEN send([Checked(c, sentBytes > 0, 163)
                       EXCEPT !.sendCursor_ = @ + sentBytes])
    ELSE recvHeader(Checked(c, sentBytes > 0, 163))

\* Response::parse as the specification describes it: a status line
\* "HTTP/1.x SP code [SP reason] CRLF", header lines as in a request, and the
\* rest as the body.  The result is [ok, resp].
ResponseFailure == [ok |-> FALSE, resp |-> DefaultResponse]

\* Where the body starts: after the first empty line, or at the end.
bodyStart(responseStr, blankLine) ==
    IF blankLine = npos THEN Len(responseStr) ELSE blankLine + 4

Response_parseHeaders(responseStr, statusLineEnd, code, hdrs) ==
    IF ~code.has \/ ~hdrs.ok THEN ResponseFailure
    ELSE [ok |-> TRUE,
          resp |-> [code |-> code.val, headers |-> hdrs.headers,
                    body |-> Substr(responseStr,
                                    bodyStart(responseStr,
                                              Find(responseStr, CRLF \o CRLF,
                                                   statusLineEnd)),
                                    npos)]]

Response_parseCode(responseStr, statusLineEnd, codeEnd) ==
    Response_parseHeaders(
        responseStr, statusLineEnd,
        parseInt(SubSeq(responseStr, 10,
                        IF codeEnd = npos THEN statusLineEnd ELSE codeEnd)),
        parseHeaderLines(responseStr, statusLineEnd + 2, <<>>))

Response_parseLine(responseStr, statusLineEnd) ==
    IF statusLineEnd = npos \/ statusLineEnd < 10 THEN ResponseFailure
    ELSE IF ~versionOk(SubSeq(responseStr, 1, 8)) \/ At(responseStr, 8) # SP
         THEN ResponseFailure
    ELSE Response_parseCode(
            responseStr, statusLineEnd,
            Find(SubSeq(responseStr, 1, statusLineEnd), <<SP>>, 9))

Response_parse(responseStr) ==
    Response_parseLine(responseStr, Find(responseStr, CRLF, 0))

\* Lines 222-223: the callback gets the response and the slot is cleared.
deliver(c, response) == [Invoke(c, "ok", response) EXCEPT !.callback_ = 0]

\* onResponseLength without the truncation of line 219
onResponseLength_NoTruncate(c, response, length) ==
    IF ~length.has
    THEN ClientClose(Invoke(c, "invalid_argument", DefaultResponse))
    ELSE deliver(c, response)

\* Lines 207-221
onResponseLength(c, response, length) ==
    IF ~length.has
    THEN ClientClose(Invoke(c, "invalid_argument", DefaultResponse))
    ELSE IF Len(response.body) < length.val THEN deliver(c, response)
    ELSE deliver(c, [response EXCEPT !.body = Substr(@, 0, length.val)])

\* Lines 205-222
onResponseParsed(c, response, contentLength) ==
    IF contentLength.has
    THEN onResponseLength(c, response, parseInt(contentLength.val))
    ELSE deliver(c, response)

\* Lines 197-205
onResponse(c, response) ==
    IF ~response.ok
    THEN ClientClose(Invoke(c, "invalid_argument", DefaultResponse))
    ELSE onResponseParsed(c, response.resp,
                          HeaderGet(response.resp.headers, ContentLengthName))

\* Line 197
onResponseBytes(c) == onResponse(c, Response_parse(c.responseBuffer_))

\* The completion callback of the recv (lines 179-224)
onClientRecv(c, recvLen, ec, data) ==
    IF ec # "ok" THEN ClientClose(Invoke(c, ec, DefaultResponse))
    ELSE IF Len(data) = 0
         THEN ClientClose(Invoke(c, "host_unreachable", DefaultResponse))
    ELSE onResponseBytes([c EXCEPT !.responseBuffer_ =
                                      AfterRecv(@, recvLen, data)])

-----------------------------------------------------------------------------
(* The client session's actions *)

\* ClientSession::create(io, host, port): the constructor (lines 65-71)
InitialClient(port) ==
    [host_ |-> <<"h">>, port_ |-> IF port # 0 THEN port ELSE DefaultPort,
     connectAddr_ |-> "AF_UNSPEC", callback_ |-> 0, requestBuffer_ |-> <<>>,
     responseBuffer_ |-> <<>>, sendCursor_ |-> 0, connection_ |-> "null",
     sock |-> "none", pending |-> <<>>, calls |-> 0, accepted |-> 0,
     lastReturn |-> "none", invocations |-> <<>>, ioAfterFailure |-> FALSE,
     closes |-> 0, sent |-> <<>>, recvs |-> 0, asserts |-> {}]

\* What the application may ask for
ClientRequests ==
    { [method |-> "Get", target |-> <<"/", "x">>,
       headers |-> <<>>, body |-> <<>>],
      [method |-> "Put", target |-> <<"/">>,
       headers |-> <<<<HostName, <<"a">>>>>>, body |-> <<"h", "i">>] }

\* What the server of the client session may reply
ServerReplies ==
    { Response_string(ResponseOf(StatusOk, <<"h", "i">>)),
      StatusLineOk \o ContentLengthField \o <<"2">> \o CRLF \o CRLF
         \o <<"h", "i", "!">>,
      StatusLineOk \o ContentLengthField \o <<"5">> \o CRLF \o CRLF
         \o <<"h", "i">>,
      StatusLineOk \o ContentLengthField \o <<"x">> \o CRLF \o CRLF,
      ReplyGarbage }

\* What ::socket may return: a descriptor or -1
SocketResults == {"fd", "bad"}

\* How the resolve may end: with an error of the I/O queue, with no address
\* (getaddrinfo failed or found none), or with addresses.
ResolveOutcomes ==
    { [ec |-> "ECANCELED", addrs |-> <<>>], [ec |-> "ok", addrs |-> <<>>],
      [ec |-> "ok", addrs |-> <<"AF_INET">>],
      [ec |-> "ok", addrs |-> <<"AF_INET6", "AF_INET">>] }

\* How a connect on sock may end; on -1 it fails.
ConnectOutcomes(sock) ==
    IF sock = "bad" THEN {"EBADF"} ELSE {"ok", "ECONNREFUSED"}

\* How a send or recv may end on the client's socket: only a connected
\* socket moves bytes.
ClientIoOutcomes(sock, sizes) ==
    IF sock = "connected"
    THEN {[ec |-> e, n |-> 0] : e \in {"ECONNRESET", "ok"}}
         \cup {[ec |-> "ok", n |-> k] : k \in sizes}
    ELSE {[ec |-> IF sock = "bad" THEN "EBADF" ELSE "ENOTCONN", n |-> 0]}

ClientNextOp == Head(client.pending)

ClientPop(c) == [c EXCEPT !.pending = Tail(@)]

\* The application calls request().
Request ==
    /\ client.calls < MaxClientCalls
    /\ \E r \in ClientRequests, sock \in SocketResults :
          client' = request([client EXCEPT !.calls = @ + 1], r.method,
                            r.target, r.headers, r.body, client.calls + 1, sock)
    /\ UNCHANGED <<server, peer, listener, codec>>

\* The resolve completes.
ResolveDone ==
    /\ client.pending # <<>>
    /\ ClientNextOp.op = "resolve"
    /\ \E o \in ResolveOutcomes, sock \in SocketResults :
          client' = onResolve(ClientPop(client), o.ec, o.addrs, sock)
    /\ UNCHANGED <<server, peer, listener, codec>>

\* The connect completes.
ConnectDone ==
    /\ client.pending # <<>>
    /\ ClientNextOp.op = "connect"
    /\ \E ec \in ConnectOutcomes(ClientNextOp.sock) :
          client' = onConnect(ClientPop(client), ClientNextOp.sock, ec)
    /\ UNCHANGED <<server, peer, listener, codec>>

\* The history's record of a send completion of the client
ClientDeparted(c, data) == [c EXCEPT !.sent = @ \o data]

\* A send of the client completes; the bytes it took are those of
\* requestBuffer_ from the cursor it was submitted with.
ClientSendDone ==
    /\ client.pending # <<>>
    /\ ClientNextOp.op = "send"
    /\ \E o \in ClientIoOutcomes(client.sock, IoSizes(ClientNextOp.len)) :
          client' = onClientSend(
                       ClientDeparted(ClientPop(client),
                                      Substr(client.requestBuffer_,
                                             ClientNextOp.off, o.n)),
                       o.ec, o.n)
    /\ UNCHANGED <<server, peer, listener, codec>>

\* The recv of the client completes with some first bytes of a reply.
ClientRecvDone ==
    /\ client.pending # <<>>
    /\ ClientNextOp.op = "recv"
    /\ \E reply \in ServerReplies :
          \E o \in ClientIoOutcomes(
                      client.sock,
                      IoSizes(Min(ClientNextOp.len, Len(reply)))) :
             client' = onClientRecv(ClientPop(client), ClientNextOp.len, o.ec,
                                    SubSeq(reply, 1, o.n))
    /\ UNCHANGED <<server, peer, listener, codec>>

ClientNext ==
    \/ Request
    \/ ResolveDone
    \/ ConnectDone
    \/ ClientSendDone
    \/ ClientRecvDone

\* The client session alone; the server session does not take part.
ClientInit ==
    /\ client \in {InitialClient(port) : port \in {0, OtherPort}}
    /\ server = <<>>
    /\ peer = <<>>
    /\ listener = <<>>
    /\ codec = <<>>

ClientSpec == ClientInit /\ [][ClientNext]_vars

-----------------------------------------------------------------------------
(* Properties of the client session *)

\* A step in which the application calls request()
RequestCalled == client'.calls = client.calls + 1

\* Whether the request accepted last is still in progress: its callback is
\* stored and has not been invoked.
InProgress == client.callback_ # 0 /\ client.invocations = <<>>

\* C3: for the request call that returned true last, the completion callback
\* is never invoked more than once, and it has been invoked exactly once when
\* no operation of the session is outstanding any more.
C3_CallbackExactlyOnce ==
    /\ Len(client.invocations) <= 1
    /\ (client.accepted >= 1 /\ client.pending = <<>>) =>
          Len(client.invocations) = 1

\* Whether the first invocation of the callback reported a failure
Failed ==
    /\ client.invocations # <<>>
    /\ client.invocations[1].ec # "ok"

\* C4: once a step of the request has failed, the callback has been called
\* once, with the error and a default-constructed Response, the connection is
\* closed if there is one, and no operation was submitted after the failure.
C4_FailureEndsRequest ==
    Failed =>
        /\ Len(client.invocations) = 1
        /\ client.invocations[1].response = DefaultResponse
        /\ client.connection_ = "set" => client.sock = "closed"
        /\ ~client.ioAfterFailure

\* C5: a request call made while a request is in progress returns false and
\* changes nothing of the session: callback_, requestBuffer_, sendCursor_,
\* the connection and the outstanding operations stay as they were.
C5_RefusedWhileInProgress ==
    [][(RequestCalled /\ InProgress) =>
          client' = [client EXCEPT !.calls = @ + 1, !.lastReturn = "false"]]_vars

\* C5's case: a call was refused while the request before it was in
\* progress, with an operation outstanding.
C5_Witness ==
    /\ client.lastReturn = "false"
    /\ InProgress
    /\ client.pending # <<>>
    /\ client.calls = client.accepted + 1

\* C6: once the callback of the current request has been invoked, with a
\* response or with an error, the next request call returns true.
C6_AcceptedAfterCompletion ==
    [][(RequestCalled /\ client.invocations # <<>>) =>
          client'.lastReturn = "true"]_vars

\* C7: a request accepted while the connection of a prior request is open
\* goes directly to send: a send of the whole new requestBuffer_, from its
\* first byte, is outstanding when request returns.
C7_OpenConnectionSends ==
    [][(/\ RequestCalled
        /\ client'.accepted = client.accepted + 1
        /\ client.connection_ = "set"
        /\ client.sock = "connected") =>
          client'.pending =
             <<ClientSendOp(0, Len(client'.requestBuffer_))>>]_vars

ClientOutstanding(op) ==
    {i \in DOMAIN client.pending : client.pending[i].op = op}

\* C24: every send of the client starts at sendCursor_, which is the number
\* of bytes sent so far, and covers the rest of requestBuffer_, the bytes
\* sent so far being its first bytes; the recv is outstanding only when the
\* bytes sent are the whole of requestBuffer_, each once and in order.
C24_ClientPartialSends ==
    /\ \A i \in ClientOutstanding("send") :
          /\ client.pending[i].off = client.sendCursor_
          /\ client.pending[i].off = Len(client.sent)
          /\ client.pending[i].len =
                 Len(client.requestBuffer_) - client.sendCursor_
          /\ IsPrefix(client.sent, client.requestBuffer_)
    /\ ClientOutstanding("recv") # {} => client.sent = client.requestBuffer_

\* The Content-Length a response declares, if it has one that parses
ResponseLengthOf(contentLength) ==
    IF contentLength.has THEN parseInt(contentLength.val)
    ELSE [has |-> FALSE, val |-> 0]

ResponseLength(response) ==
    ResponseLengthOf(HeaderGet(response.headers, ContentLengthName))

\* The response with its body cut to length bytes
Truncated(response, length) ==
    [response EXCEPT !.body = SubSeq(@, 1, length)]

\* What the callback is to get for a response whose body has at least the
\* declared number of bytes
DeliveredTruncated(response) ==
    [ec |-> "ok",
     response |-> Truncated(response, ResponseLength(response).val)]

\* A step in which the recv completes with a response that parses and has
\* at least as many body bytes as its Content-Length declares
FullResponseArrived(response) ==
    /\ client.pending # <<>>
    /\ Head(client.pending).op = "recv"
    /\ response.ok
    /\ ResponseLength(response.resp).has
    /\ Len(response.resp.body) >= ResponseLength(response.resp).val

\* C25: at most one recv is submitted per request, of at most 1024 bytes;
\* when it completes with a response that parses, with a parseable
\* Content-Length and at least that many body bytes, the callback is invoked
\* once, with success and the response with its body cut to Content-Length
\* bytes, and callback_ is cleared; no body delivered with success is
\* longer than the Content-Length of its response.
C25_ResponseDelivered ==
    /\ [](/\ client.recvs <= 1
          /\ \A i \in ClientOutstanding("recv") :
                client.pending[i].len <= 1024
          /\ \A i \in DOMAIN client.invocations :
                (/\ client.invocations[i].ec = "ok"
                 /\ ResponseLength(client.invocations[i].response).has) =>
                    Len(client.invocations[i].response.body) <=
                       ResponseLength(client.invocations[i].response).val)
    /\ [][FullResponseArrived(Response_parse(client'.responseBuffer_)) =>
            /\ client'.invocations =
                   <<DeliveredTruncated(
                        Response_parse(client'.responseBuffer_).resp)>>
            /\ client'.callback_ = 0
            /\ client'.pending = <<>>]_vars

\* C25's case: a response with more body bytes than its Content-Length
\* arrived and the callback got the body cut to that length.
C25_Witness ==
    /\ client.recvs = 1
    /\ Response_parse(client.responseBuffer_).ok
    /\ Len(Response_parse(client.responseBuffer_).resp.body) = 3
    /\ Len(client.invocations) = 1
    /\ client.invocations[1].ec = "ok"
    /\ Len(client.invocations[1].response.body) = 2
    /\ client.callback_ = 0

\* C24's case: the request went out in more than one send and the recv is
\* outstanding.
C24_Witness ==
    /\ client.sendCursor_ > 0
    /\ client.sent = client.requestBuffer_
    /\ client.pending = <<ClientRecvOp(ClientRecvLen)>>

-----------------------------------------------------------------------------
(* Server, src/src/server.hpp: the accept chain.

   The variable listener holds what Server::accept and Server::handleAccept
   do: pending (accepts the I/O queue took that have not completed), and the
   counts of: refused (calls of io_.accept that returned false), submitted
   (calls that returned true), completions (handleAccept calls),
   acceptErrors and connAccepted (the metrics of those names), sessions
   (sessions constructed and started), closedFds (accepted descriptors
   closed because the factory made no connection).                         *)

\* The Server after construction (lines 42-55)
InitialListener ==
    [started |-> FALSE, pending |-> 0, refused |-> 0, submitted |-> 0,
     completions |-> 0, acceptErrors |-> 0, connAccepted |-> 0,
     sessions |-> 0, closedFds |-> 0]

\* What the calls of io_.accept made by one accept() return, in order: the
\* queue refuses some and then takes one.
AcceptResults ==
    {[i \in 1..(k + 1) |-> i = k + 1] : k \in 0..MaxAcceptRetries}

\* Server::accept: the loop of lines 385-388 over the results of io_.accept
RECURSIVE accept(_, _)
accept(l, results) ==
    IF Head(results)
    THEN [l EXCEPT !.submitted = @ + 1, !.pending = @ + 1]
    ELSE accept([l EXCEPT !.refused = @ + 1], Tail(results))

\* Lines 400-406: the factory makes a connection and the session is started,
\* or it makes none and the descriptor is closed.
onAccepted(l, conn) ==
    IF conn THEN [l EXCEPT !.connAccepted = @ + 1, !.sessions = @ + 1]
    ELSE [l EXCEPT !.connAccepted = @ + 1, !.closedFds = @ + 1]

\* handleAccept returning right after an accept error
handleAccept_StopsOnError(l, ec, conn, results) ==
    IF ec # "ok" THEN [l EXCEPT !.acceptErrors = @ + 1]
    ELSE accept(onAccepted(l, conn), results)

\* Server::handleAccept
handleAccept(l, ec, conn, results) ==
    accept(IF ec # "ok" THEN [l EXCEPT !.acceptErrors = @ + 1]
           ELSE onAccepted(l, conn),
           results)

\* How an accept may complete, and what the factory then does
AcceptOutcomes ==
    { [ec |-> "EMFILE", conn |-> FALSE], [ec |-> "ok", conn |-> FALSE],
      [ec |-> "ok", conn |-> TRUE] }

\* Server::start
ListenerStart ==
    /\ ~listener.started
    /\ \E results \in AcceptResults :
          listener' = accept([listener EXCEPT !.started = TRUE], results)
    /\ UNCHANGED <<server, peer, client, codec>>

\* An accept completes and handleAccept runs.
AcceptDone ==
    /\ listener.pending > 0
    /\ listener.completions < MaxAccepts
    /\ \E o \in AcceptOutcomes, results \in AcceptResults :
          listener' = handleAccept(
                         [listener EXCEPT !.pending = @ - 1,
                                          !.completions = @ + 1],
                         o.ec, o.conn, results)
    /\ UNCHANGED <<server, peer, client, codec>>

ListenerNext ==
    \/ ListenerStart
    \/ AcceptDone

ListenerInit ==
    /\ listener = InitialListener
    /\ server = <<>>
    /\ peer = <<>>
    /\ client = <<>>
    /\ codec = <<>>

ListenerSpec == ListenerInit /\ [][ListenerNext]_vars

\* A step in which an accept completes
AcceptCompleted == listener'.completions = listener.completions + 1

\* C16: once the listener is started exactly one accept is outstanding, and
\* every accept completion submits exactly one new accept, whether it
\* carried an error (no session, no close), the factory made no connection
\* (the descriptor closed, no session) or a session was started.
C16_AcceptChain ==
    /\ [](listener.pending = (IF listener.started THEN 1 ELSE 0))
    /\ [](listener.submitted = listener.completions + listener.pending)
    /\ [](listener.completions =
             listener.acceptErrors + listener.sessions + listener.closedFds)
    /\ [][AcceptCompleted =>
            /\ listener'.submitted = listener.submitted + 1
            /\ listener'.pending = 1
            /\ listener'.sessions + listener'.closedFds
                  + listener'.acceptErrors
               = listener.sessions + listener.closedFds
                    + listener.acceptErrors + 1
            /\ listener'.sessions >= listener.sessions
            /\ listener'.closedFds >= listener.closedFds
            /\ listener'.acceptErrors >= listener.acceptErrors]_vars

\* C16's case: accepts have completed in each of the three ways, the queue
\* has refused some submissions, and one accept is outstanding.
C16_Witness ==
    /\ listener.acceptErrors >= 1
    /\ listener.closedFds >= 1
    /\ listener.sessions >= 1
    /\ listener.refused >= 1
    /\ listener.pending = 1

-----------------------------------------------------------------------------
(* Url::parse and removeDotSegments, src/src/http.cpp, applied to inputs.

   The variable codec holds one application: input (the bytes given), stage
   ("input" before the function is applied, then "parsed" or "normalized"),
   parsed (what Url::parse returned) and output (what removeDotSegments
   returned); again is what removeDotSegments returned for output, and
   asserts holds the lines of the asserts that failed in the calls made.   *)

\* The bytes the enumerated inputs are made of
UrlAlphabet == {"/", ".", "a", ":", "?", "#", ";", "*"}

UrlExamples ==
    { <<"/", "a", "/", "b", "/", "c", "/", ".", "/", ".", ".", "/", ".", ".",
        "/", "g">>,
      <<"/", "m", "i", "d", "/", "c", "o", "n", "t", "e", "n", "t", "=", "5",
        "/", ".", ".", "/", "6">>,
      <<"/", "a", "/", "b", "/", ".", ".", "/", "c", "/", ".", "/", "d">>,
      <<"h", "t", "t", "p", ":", "/", "/", "h", "/", "p">>,
      <<"h", "t", "t", "p", ":", "/", "/", "e", "x", "a", "m", "p", "l", "e",
        ".", "o", "r", "g", "/", "a", "/", ".", ".", "/", "b">>,
      <<"/", "a", "?", "b", ":", "c", "/", ".", ".">> }

\* The inputs: every string over UrlAlphabet up to MaxInputLen bytes, and
\* the examples.
UrlInputs ==
    UNION {[1..n -> UrlAlphabet] : n \in 0..MaxInputLen} \cup UrlExamples

InitialCodec(input) ==
    [input |-> input, stage |-> "input", parsed |-> UrlFailure,
     output |-> <<>>, given |-> <<>>, request |-> RequestFailure,
     again |-> <<>>, asserts |-> {}]

\* The header entries the requests are made of
HeaderEntries ==
    { <<<<"H", "o", "s", "t">>, <<"h">>>>,
      <<ConnectionName, CloseValue>>,
      <<<<"A">>, <<"b">>>>,
      <<<<"A">>, <<"c">>>> }

\* The header multimaps of up to MaxHeaderLines entries
HeaderMaps == UNION {[1..n -> HeaderEntries] : n \in 0..MaxHeaderLines}

\* A request made of a request line, the serialized headers and the empty
\* line, as the argument of Request::parse
RequestInput(requestLine, headers) ==
    [InitialCodec(requestLine \o HeaderSerialize(headers) \o CRLF)
        EXCEPT !.stage = "request", !.given = headers]

RequestInputs ==
    {RequestInput(requestLine, headers) :
        requestLine \in {ReqLineGet11, ReqLineGet10, ReqLinePut},
        headers \in HeaderMaps}

\* Url::parse(input)
ParseUrl ==
    /\ codec.stage = "input"
    /\ codec' = [codec EXCEPT !.stage = "parsed",
                              !.parsed = Url_parse(codec.input)]
    /\ UNCHANGED <<server, peer, client, listener>>

\* removeDotSegments(input), for an input that meets the assert of line 40
RemoveDotSegments ==
    /\ codec.stage = "input"
    /\ codec.input # <<>>
    /\ At(codec.input, 0) = "/"
    /\ codec' = [codec EXCEPT !.stage = "normalized",
                              !.output = removeDotSegments(codec.input),
                              !.asserts = failedAsserts(codec.input)]
    /\ UNCHANGED <<server, peer, client, listener>>

\* removeDotSegments(output): the function applied to its own result
RemoveDotSegmentsAgain ==
    /\ codec.stage = "normalized"
    /\ codec' = [codec EXCEPT !.stage = "renormalized",
                              !.again = removeDotSegments(codec.output),
                              !.asserts = @ \cup failedAsserts(codec.output)]
    /\ UNCHANGED <<server, peer, client, listener>>

\* Request::parse(input)
ParseRequest ==
    /\ codec.stage = "request"
    /\ codec' = [codec EXCEPT !.stage = "requestParsed",
                              !.request = Request_parse(codec.input)]
    /\ UNCHANGED <<server, peer, client, listener>>

CodecNext ==
    \/ ParseUrl
    \/ RemoveDotSegments
    \/ RemoveDotSegmentsAgain
    \/ ParseRequest

CodecInit ==
    /\ codec \in {InitialCodec(input) : input \in UrlInputs}
                    \cup RequestInputs
    /\ server = <<>>
    /\ peer = <<>>
    /\ client = <<>>
    /\ listener = <<>>

CodecSpec == CodecInit /\ [][CodecNext]_vars

\* Whether the segment of path that starts at the '/' at position i is "."
\* or ".."
DotSegmentAt(path, i) ==
    /\ At(path, i) = "/"
    /\ \/ Substr(path, i + 1, npos) \in {<<".">>, <<".", ".">>}
       \/ Substr(path, i + 1, 2) = <<".", "/">>
       \/ Substr(path, i + 1, 3) = <<".", ".", "/">>

\* Whether path begins with '/' and has no segment "." or ".."
Normalized(path) ==
    /\ path # <<>>
    /\ At(path, 0) = "/"
    /\ \A i \in 0..(Len(path) - 1) : ~DotSegmentAt(path, i)

Parsed == codec.stage = "parsed" /\ codec.parsed.ok

\* C17 as stated: for every input on which Url::parse succeeds, the path
\* begins with '/' and has no segment "." or "..".
C17_PathNormalized == Parsed => Normalized(codec.parsed.url.path)

\* C17 amended: for every input other than "*" on which Url::parse succeeds,
\* the path begins with '/' and has no segment "." or "..".
C17_PathNormalizedUnlessAsterisk ==
    Parsed /\ codec.input # <<"*">> => Normalized(codec.parsed.url.path)

\* C17's case: an input with dot segments in it parsed, to a shorter path.
C17_Witness ==
    /\ Parsed
    /\ \E i \in 0..(Len(codec.input) - 1) : DotSegmentAt(codec.input, i)
    /\ Len(codec.parsed.url.path) > 1
    /\ Normalized(codec.parsed.url.path)

\* The segments of input, each a '/' followed by the bytes up to the next '/'
RECURSIVE SegmentsOf(_)
SegmentsOf(input) ==
    IF input = <<>> THEN <<>>
    ELSE LET n == CHOOSE j \in 1..Len(input) :
                      /\ j = Len(input) \/ input[j + 1] = "/"
                      /\ \A k \in 2..j : input[k] # "/"
         IN  <<SubSeq(input, 1, n)>>
                 \o SegmentsOf(SubSeq(input, n + 1, Len(input)))

\* output cut before its last '/', or output when it has none
TruncatedAtLastSlash(output) ==
    LET slashes == {i \in 1..Len(output) : output[i] = "/"}
    IN  IF slashes = {} THEN output
        ELSE SubSeq(output, 1,
                    (CHOOSE i \in slashes : \A j \in slashes : j <= i) - 1)

\* The walk over the segments: "/." is dropped, "/.." is dropped and the
\* output truncated, any other segment (a bare "/" among them) is appended.
RECURSIVE SegmentWalk(_, _)
SegmentWalk(segments, output) ==
    IF segments = <<>> THEN output
    ELSE SegmentWalk(
            Tail(segments),
            CASE Head(segments) = <<"/", ".">> -> output
              [] Head(segments) = <<"/", ".", ".">> ->
                     TruncatedAtLastSlash(output)
              [] OTHER -> output \o Head(segments))

\* What the walk gives for input, an empty output becoming "/"
WalkResult(input) ==
    LET output == SegmentWalk(SegmentsOf(input), <<>>)
    IN  IF output = <<>> THEN <<"/">> ELSE output

NormalizedFrom(input, output) ==
    codec.stage = "normalized" /\ codec.input = input => codec.output = output

\* C18: for every non-empty input beginning with '/', removeDotSegments
\* returns the result of the segment walk ("/." dropped, "/.." dropped and
\* the output truncated at its last '/', any other segment appended, a
\* trailing bare '/' preserved, an empty output becoming "/"), and the
\* examples give "/a/g", "/mid/6", "/", "/" and "/a/".
C18_SegmentWalk ==
    /\ codec.stage = "normalized" => codec.output = WalkResult(codec.input)
    /\ NormalizedFrom(
           <<"/", "a", "/", "b", "/", "c", "/", ".", "/", ".", ".", "/", ".",
             ".", "/", "g">>,
           <<"/", "a", "/", "g">>)
    /\ NormalizedFrom(
           <<"/", "m", "i", "d", "/", "c", "o", "n", "t", "e", "n", "t", "=",
             "5", "/", ".", ".", "/", "6">>,
           <<"/", "m", "i", "d", "/", "6">>)
    /\ NormalizedFrom(<<"/", ".", "/">>, <<"/">>)
    /\ NormalizedFrom(<<"/", ".", ".", "/">>, <<"/">>)
    /\ NormalizedFrom(<<"/", "a", "/">>, <<"/", "a", "/">>)

\* C18's case: the first example went through removeDotSegments, which
\* dropped "/." and truncated the output twice.
C18_Witness ==
    /\ codec.stage = "normalized"
    /\ Len(codec.input) = 16
    /\ codec.output = <<"/", "a", "/", "g">>

\* C31: for every non-empty input x beginning with '/',
\* removeDotSegments(removeDotSegments(x)) equals removeDotSegments(x), and
\* no assert of removeDotSegments fails in either call.
C31_Idempotent ==
    /\ codec.stage \in {"normalized", "renormalized"} => codec.asserts = {}
    /\ codec.stage = "renormalized" => codec.again = codec.output

\* C31's case: the first call dropped "/." and truncated the output twice
\* in the 16 bytes of "/a/b/c/./../../g", and the second call returned the
\* "/a/g" it was given.
C31_Witness ==
    /\ codec.stage = "renormalized"
    /\ Len(codec.input) = 16
    /\ codec.output = <<"/", "a", "/", "g">>
    /\ codec.again = codec.output
    /\ codec.asserts = {}

\* The scheme charset [A-Za-z0-9+.-]
InSchemeCharset(ch) ==
    \/ \E i \in 1..26 : UpperCase[i] = ch \/ LowerCase[i] = ch
    \/ IsDigit(ch)
    \/ ch \in {"+", ".", "-"}

\* input up to its first '?', ';' or '#'
PathPart(input) ==
    LET ends == {i \in 1..Len(input) : input[i] \in {"?", ";", "#"}}
    IN  IF ends = {} THEN input
        ELSE SubSeq(input, 1, (CHOOSE i \in ends : \A j \in ends : i <= j) - 1)

\* Whether input is "<scheme>://<authority>/<rest>" with its first ':' at
\* position colon and the first '/' after the authority at position slash
AbsoluteUriAt(input, colon, slash) ==
    /\ colon = Find(input, <<":">>, 0)
    /\ \A i \in 0..(colon - 1) : InSchemeCharset(At(input, i))
    /\ Substr(input, colon + 1, 2) = <<"/", "/">>
    /\ slash = Find(input, <<"/">>, colon + 3)
    /\ slash # npos
    /\ \A i \in (colon + 3)..(slash - 1) : At(input, i) \notin {"?", "#"}

\* C19: for an input "<scheme>://<authority>/<rest>" Url::parse succeeds,
\* and the path is what remove-dot-segments gives for the part that starts
\* at the first '/' after the authority.
C19_AbsoluteUriAccepted ==
    codec.stage = "parsed" =>
        \A colon \in 1..Len(codec.input), slash \in 1..Len(codec.input) :
            AbsoluteUriAt(codec.input, colon, slash) =>
                /\ codec.parsed.ok
                /\ codec.parsed.url.path =
                       removeDotSegments(
                           PathPart(Substr(codec.input, slash, npos)))

\* Url::parse when the scheme step (lines 125-141) drops nothing
Url_parseKeepingScheme(urlStr, f) ==
    Url_parseQuery(urlStr, f.part, SplitOff(skipAuthority(f.rest), "?"))

\* Whether urlStr has a ':' with a byte before it that is outside the scheme
\* charset
ColonAfterNonScheme(urlStr) ==
    /\ Find(urlStr, <<":">>, 0) # npos
    /\ \E i \in 0..(Find(urlStr, <<":">>, 0) - 1) :
           ~InSchemeCharset(At(urlStr, i))

\* Whether input begins with one '/' and has a ':' in its path or query
OriginFormWithColon(input) ==
    /\ IsPrefix(<<"/">>, input)
    /\ ~IsPrefix(<<"/", "/">>, input)
    /\ Find(SplitOff(input, "#").rest, <<":">>, 0) # npos

\* C20: when a byte before the first ':' is outside the scheme charset,
\* Url::parse drops nothing at the scheme step; an input that begins with
\* '/' and has a ':' in its path or query parses successfully.
C20_SchemeCharset ==
    codec.stage = "parsed" /\ codec.input # <<"*">> =>
        /\ ColonAfterNonScheme(SplitOff(codec.input, "#").rest) =>
               codec.parsed =
                   Url_parseKeepingScheme(codec.input,
                                          SplitOff(codec.input, "#"))
        /\ OriginFormWithColon(codec.input) => codec.parsed.ok

\* C21: for every well-formed request, Request::parse succeeds and yields
\* one header entry per header line, in order, from the line right after the
\* request line to the first empty line, each name being the bytes of its
\* line before the first ':': parsing the serialized headers gives back the
\* multimap they were serialized from.
C21_HeadersRoundTrip ==
    codec.stage = "requestParsed" =>
        /\ codec.request.ok
        /\ codec.request.req.headers = codec.given

\* C22: for every well-formed request R, the requestLine of the Request that
\* Request::parse returns is the bytes of R before the first "\r\n".
C22_RequestLine ==
    codec.stage = "requestParsed" /\ codec.request.ok =>
        codec.request.req.requestLine =
            Substr(codec.input, 0, Find(codec.input, CRLF, 0))

-----------------------------------------------------------------------------
(* The sessions of both kinds: a server session with its peer, or a client
   session.                                                                 *)

\* Whether the variable holds a session
IsSession(v) == DOMAIN v # {}

SessionNext ==
    \/ IsSession(server) /\ ServerNext
    \/ IsSession(client) /\ ClientNext

SessionInit ==
    /\ listener = <<>>
    /\ codec = <<>>
    /\ \/ /\ server \in {InitialSession(ka) : ka \in BOOLEAN}
          /\ peer = InitialPeer
          /\ client = <<>>
       \/ /\ client \in {InitialClient(port) : port \in {0, OtherPort}}
          /\ server = <<>>
          /\ peer = <<>>

SessionSpec == SessionInit /\ [][SessionNext]_vars

\* The operations of a session whose completion has not fired
PendingOf(v) == IF IsSession(v) THEN v.pending ELSE <<>>

C27_ClientWitness ==
    /\ IsSession(client)
    /\ client.pending = <<ResolveOp>>

\* The asserts of a session that have failed
FailedAsserts(v) == IF IsSession(v) THEN v.asserts ELSE {}

\* C29: no assert of the session code fails: in the server those of
\* sendResponse, of readRequestBody and of its callback before the handler
\* is invoked, in the client those of connect and of send.
C29_AssertsHold ==
    /\ FailedAsserts(server) = {}
    /\ FailedAsserts(client) = {}

\* C29's case: the handler was invoked after a body read in more than one
\* recv, and its response is going out in more than one send.
C29_Witness ==
    /\ IsSession(server)
    /\ server.bodyRecvs >= 2
    /\ server.handled = 1
    /\ Len(server.requestBodyBuffer_) = MaxRequestBodySize
    /\ server.responseSendOffset_ > 0
    /\ server.pending =
          <<SendOp(server.responseSendOffset_,
                   Len(server.responseBuffer_) - server.responseSendOffset_)>>

C29_ClientWitness ==
    /\ IsSession(client)
    /\ client.connection_ = "set"
    /\ client.sendCursor_ > 0
    /\ client.recvs = 1

=============================================================================
